---- MODULE Spec2Model ----
(***************************************************************************)
(* A model of parts of the zq log-processing engine:                       *)
(*   - expr/sort.go        the record comparator and the stable sort       *)
(*   - pkg/zson/array.go   the Array batch                                 *)
(*   - zqd/search          the search driver and its output handler        *)
(*   - zqd/ingest          log ingest into a space                         *)
(*   - cmd/zq              the zq command: arguments and input readers     *)
(*   - streamfn/uint64.go  the Sum, Min and Max accumulators               *)
(*   - pcap/index.go       CreateIndex and the IndexWriter                 *)
(*   - zqd/middleware.go   the request-ID middleware                       *)
(*   - zeekio              the zeek header parser                          *)
(* Each component has its own variables, its own initial predicate and its *)
(* own next-state relation; a component that is not exercised sits idle.   *)
(***************************************************************************)
EXTENDS Integers, Sequences, FiniteSets, TLC

VARIABLES
    \* ---- expr/sort.go: SortStable on a RecordSlice
    sortPc,        \* "idle" | "ready" | "sorted"
    recs,          \* the records the slice points to (pointer = index)
    slice,         \* RecordSlice.records: a sequence of pointers
    sortNullsMax,  \* NewSortFn's nullsMax
    sortFields,    \* NewSortFn's fields (a list of field names)
    \* ---- expr/sort.go: one call of the comparator NewSortFn returns
    cmpPc,         \* "idle" | "ready" | "done"
    cmpA, cmpB,    \* the two records
    cmpNullsMax,
    cmpFields,
    cmpRes,        \* the comparator's result once cmpPc = "done"
    \* ---- pkg/zson/array.go: an Array and the last call made on it
    arrPc,         \* "idle" | "built"
    arrR, arrS,    \* the arguments NewArray was given
    arr,           \* the Array: [span, records]
    arrCall,       \* the last call: [op, k, len, span, rec, panic]
    \* ---- zqd/search: one search, from NewSearch to the return of Run
    srchPc,        \* "idle" | "new" | "rejected" | "ready" | "driving" |
                   \* "drvdone" | "returned"
    srchReq,       \* the api.SearchRequest: [ts, dur, dir, procOK, nch]
    srchErr,       \* NewSearch's error ("nil" when it returned a Search)
    srchTrace,     \* what NewSearch did: [unpacked, opened, closed]
    reqCancelled,  \* the ctx passed to NewSearch has been cancelled
    graph,         \* what launch compiled: [ctx, reverse, span]
    chEnded,       \* the channels whose end the multiplexer has reported
    pulls,         \* batches, warnings and stats pulled so far
    out,           \* the calls made on the Output, in order
    drvErr,        \* what driver.Run returned
    runRet,        \* what Search.Run returned
    \* ---- zqd/ingest: the Logs calls made on one space
    logPc,         \* per call: "idle" | "mkdir" | "start" | "open" | "status" |
                   \* "failed" | "final" | "cleanup" | "done"
    logReq,        \* the api.LogPostRequest: [paths, stopErr]
    ingestDir,     \* the space's ingest directory exists
    dataFile,      \* who installed the space's data file ("none": no file)
    spaceTimes,    \* who last set the space's time span ("none": never set)
    pipe,          \* per call: the messages sent on its JSONPipe
    pathIdx,       \* per call: ingestLogs' position in req.Paths
    readers,       \* per call: the paths whose reader ingestLogs kept
    ingestErr,     \* per call: the error TaskEnd is to carry
    logRet,        \* per call: what Logs returned
    \* ---- cmd/zq: one run of the zq command
    zqPc,          \* "idle" | "run" | "inputs" | "query" | "done"
    zqArgs,        \* the arguments after the options
    zqOpts,        \* the options: [showVersion, stopErr, configOK]
    zqShown,       \* what Run printed instead of running: "none"|"help"|"version"
    zqQuery,       \* the query text Run settled on ("none": not yet)
    zqPaths,       \* the arguments Run passes to inputReaders
    zqIdx,         \* inputReaders' position in paths
    zqTouched,     \* the paths inputReaders has looked at (os.Stat or stdin)
    zqReaders,     \* the paths whose reader inputReaders kept
    zqStderr,      \* the paths whose error c.errorf reported
    zqRan,         \* driver.Run has run the query over zqReaders
    zqErr,         \* what Run returned
    \* ---- streamfn/uint64.go: accumulators from NewUint64 folding values
    fnPc,          \* "idle" | "new" | "folding" | "noop"
    fnOp,          \* the op name given to NewUint64
    fnVals,        \* the values to fold
    fnDone,        \* the positions of fnVals already passed to Update
    fnAcc,         \* the accumulator that is given every value
    fnGroupAcc,    \* per group: the accumulator given the group's values
    fnGroupOf,     \* the group each folded position was put in (0: none)
    \* ---- pcap/index.go: CreateIndex on a stream, directly or by IndexWriter
    pcapPc,        \* "idle" | "ready" | "called" | "writer"
    pcapStream,    \* the stream: a file header unit, then packet units
    pcapLimit,     \* the limit handed on to ranger.NewEnvelope
    pcapRes,       \* what the direct call of CreateIndex returned
    iwPc,          \* the writer's caller: "none" | "open" | "blocked" (in
                   \* Write) | "waiting" (in Close, at wg.Wait) | "closed"
    iwWritten,     \* the units of pcapStream passed to Write so far
    pipeData,      \* io.Pipe: the unit a blocked Write is offering
    pipeWClosed,   \* io.Pipe: the write side is closed (the reader sees EOF)
    pipeRErr,      \* io.Pipe: the error the read side was closed with
    runPc,         \* the goroutine: "none" | "header" | "packets" |
                   \* "storeIdx" | "storeErr" | "closeErr" | "wgDone" | "done"
    runOff,        \* reader.Offset in the goroutine's CreateIndex
    runOffsets,    \* offsets in the goroutine's CreateIndex
    runRes,        \* what the goroutine's CreateIndex returned
    iwIdx,         \* IndexWriter.idx
    iwErr,         \* IndexWriter.err
    closeRet,      \* what Close returned
    \* ---- zqd/middleware.go: requests going through requestIDMiddleware
    midPc,         \* per request: "idle" | "get" | "generate" | "add" |
                   \* "ctx" | "serve" | "served"
    reqHeader,     \* per request: its X-Request-ID header ("" when absent)
    reqID,         \* per request: the handler's local reqID
    respHeader,    \* per request: the X-Request-ID values of the response
    ctxValue,      \* per request: the context's value for requestIDKey
    handlerSaw,    \* per request: what getRequestID gave the next handler
    count,         \* the middleware's counter
    \* ---- zeekio: a Parser fed header directives and value lines
    zpPc,          \* "idle" | "parsing"
    columns,       \* Parser.columns: a sequence of [Name, Type]
    needfields,    \* Parser.needfields
    needtypes,     \* Parser.needtypes
    zpPath,        \* Parser.Path
    descriptor,    \* Parser.descriptor: [isNil, columns, addpath]
    lastFields,    \* columns listed by the most recent #fields (0: none yet)
    lastTypes,     \* columns listed by the most recent #types (0: none yet)
    directiveErr,  \* what the last ParseDirective returned
    parseRet,      \* what ParseValue returned since the last directive
    \* ---- detector: one NewReader call on an input stream
    detPc,         \* "idle" | "zng" | "zeek" | "zjson" | "ndjson" | "bzng" |
                   \* "done": the probe NewReader is about to make
    detIn,         \* the input: which probes and constructors succeed
    detStream,     \* the Recorder and the Track: [buf, pos, off]
    detErrs,       \* zngErr, zeekErr, zjsonErr, ndjsonErr, bzngErr
    detRet         \* what NewReader returned: [reader, start, err]

sortVars == <<sortPc, recs, slice, sortNullsMax, sortFields>>
cmpVars  == <<cmpPc, cmpA, cmpB, cmpNullsMax, cmpFields, cmpRes>>
arrVars  == <<arrPc, arrR, arrS, arr, arrCall>>
srchVars == <<srchPc, srchReq, srchErr, srchTrace, reqCancelled, graph,
              chEnded, pulls, out, drvErr, runRet>>
logVars  == <<logPc, logReq, ingestDir, dataFile, spaceTimes, pipe, pathIdx,
              readers, ingestErr, logRet>>
zqVars == <<zqPc, zqArgs, zqOpts, zqShown, zqQuery, zqPaths, zqIdx,
            zqTouched, zqReaders, zqStderr, zqRan, zqErr>>
fnVars == <<fnPc, fnOp, fnVals, fnDone, fnAcc, fnGroupAcc, fnGroupOf>>
pcapVars == <<pcapPc, pcapStream, pcapLimit, pcapRes, iwPc, iwWritten,
              pipeData, pipeWClosed, pipeRErr, runPc, runOff, runOffsets,
              runRes, iwIdx, iwErr, closeRet>>
midVars == <<midPc, reqHeader, reqID, respHeader, ctxValue, handlerSaw,
             count>>
zpVars == <<zpPc, columns, needfields, needtypes, zpPath, descriptor,
            lastFields, lastTypes, directiveErr, parseRet>>
detVars == <<detPc, detIn, detStream, detErrs, detRet>>
vars == <<sortVars, cmpVars, arrVars, srchVars, logVars, zqVars, fnVars,
          pcapVars, midVars, zpVars, detVars>>

notSortVars == <<cmpVars, arrVars, srchVars, logVars, zqVars, fnVars,
                 pcapVars, midVars, zpVars, detVars>>
notCmpVars == <<sortVars, arrVars, srchVars, logVars, zqVars, fnVars,
                pcapVars, midVars, zpVars, detVars>>
notArrVars == <<sortVars, cmpVars, srchVars, logVars, zqVars, fnVars,
                pcapVars, midVars, zpVars, detVars>>
notSrchVars == <<sortVars, cmpVars, arrVars, logVars, zqVars, fnVars,
                 pcapVars, midVars, zpVars, detVars>>
notLogVars == <<sortVars, cmpVars, arrVars, srchVars, zqVars, fnVars,
                pcapVars, midVars, zpVars, detVars>>
notZqVars == <<sortVars, cmpVars, arrVars, srchVars, logVars, fnVars,
               pcapVars, midVars, zpVars, detVars>>
notFnVars == <<sortVars, cmpVars, arrVars, srchVars, logVars, zqVars,
               pcapVars, midVars, zpVars, detVars>>
notPcapVars == <<sortVars, cmpVars, arrVars, srchVars, logVars, zqVars,
                 fnVars, midVars, zpVars, detVars>>
notMidVars == <<sortVars, cmpVars, arrVars, srchVars, logVars, zqVars,
                fnVars, pcapVars, zpVars, detVars>>
notZpVars == <<sortVars, cmpVars, arrVars, srchVars, logVars, zqVars, fnVars,
               pcapVars, midVars, detVars>>
notDetVars == <<sortVars, cmpVars, arrVars, srchVars, logVars, zqVars,
                fnVars, pcapVars, midVars, zpVars>>

(***************************************************************************)
(* Values, types and bytes                                                 *)
(***************************************************************************)
NoType == "nil"

\* zng.Value{Type, Bytes}: bytesNil says Bytes == nil (then bytes is <<>>).
Val(t, isnil, b) == [type |-> t, bytesNil |-> isnil, bytes |-> b]

Absent    == Val(NoType, TRUE, <<>>)       \* the field is not in the record
UnsetInt  == Val("int64", TRUE, <<>>)      \* the field is unset
BadInt    == Val("int64", FALSE, <<>>)     \* truncated: does not decode
Int1      == Val("int64", FALSE, <<2>>)
Int2      == Val("int64", FALSE, <<4>>)
IntM1     == Val("int64", FALSE, <<3>>)
Int32x    == Val("int32", FALSE, <<4>>)
StrA      == Val("string", FALSE, <<2>>)
StrB      == Val("string", FALSE, <<4>>)
StrAB     == Val("string", FALSE, <<2, 4>>)
ArrUnset  == Val("array[int64]", FALSE, <<0>>)      \* [unset]
Arr1      == Val("array[int64]", FALSE, <<4, 2>>)   \* [1]
ArrOfArr  == Val("array[array[int64]]", FALSE, <<7, 4, 2>>)   \* [[1]]

\* isNull: a value is null when its type or its bytes are nil.
isNull(val) == val.type = NoType \/ val.bytesNil

\* Type.ID(): one small integer per primitive type.
TypeID(typ) ==
    CASE typ = "int32"  -> 6
      [] typ = "int64"  -> 7
      [] typ = "string" -> 16
      [] typ = "array[int64]"        -> 23
      [] typ = "array[array[int64]]" -> 24
      [] OTHER          -> 0

\* zng.InnerType: the element type of a container type, else nil.
InnerType(typ) ==
    CASE typ = "array[int64]"        -> "int64"
      [] typ = "array[array[int64]]" -> "array[int64]"
      [] OTHER                       -> NoType

\* []byte(Type.String()): the type's name as ASCII bytes.
TypeString(typ) ==
    CASE typ = "int32"  -> <<105, 110, 116, 51, 50>>
      [] typ = "int64"  -> <<105, 110, 116, 54, 52>>
      [] typ = "string" -> <<115, 116, 114, 105, 110, 103>>
      [] typ = "array[int64]" ->
            <<97, 114, 114, 97, 121, 91, 105, 110, 116, 54, 52, 93>>
      [] typ = "array[array[int64]]" ->
            <<97, 114, 114, 97, 121, 91, 97, 114, 114, 97, 121, 91,
              105, 110, 116, 54, 52, 93, 93>>
      [] OTHER          -> <<>>

Sign(x) == IF x < 0 THEN -1 ELSE IF x > 0 THEN 1 ELSE 0

\* bytes.Compare: lexicographic order on byte strings, a proper prefix first.
RECURSIVE BytesCompareFrom(_, _, _)
BytesCompareFrom(a, b, k) ==
    IF k > Len(a) /\ k > Len(b) THEN 0
    ELSE IF k > Len(a) THEN -1
    ELSE IF k > Len(b) THEN 1
    ELSE IF a[k] < b[k] THEN -1
    ELSE IF a[k] > b[k] THEN 1
    ELSE BytesCompareFrom(a, b, k + 1)

BytesCompare(a, b) == BytesCompareFrom(a, b, 1)

\* The counted little-endian unsigned integer of a byte string.
RECURSIVE Uvarint(_)
Uvarint(b) == IF Len(b) = 0 THEN 0 ELSE b[1] + 256 * Uvarint(Tail(b))

\* zng.DecodeInt: decode-error on truncated bytes, else the zig-zag value.
DecodeInt(b) ==
    IF Len(b) = 0 THEN [err |-> TRUE, v |-> 0]
    ELSE LET u == Uvarint(b) IN
         [err |-> FALSE, v |-> IF u % 2 = 1 THEN -(u \div 2) ELSE u \div 2]

(***************************************************************************)
(* expr/sort.go                                                            *)
(***************************************************************************)
\* lookupSorter's comparefn for the int types.
IntCompare(a, b) ==
    LET da == DecodeInt(a)
        db == DecodeInt(b)
    IN  IF da.err THEN -1
        ELSE IF db.err THEN 1
        ELSE IF da.v < db.v THEN -1
        ELSE IF da.v > db.v THEN 1
        ELSE 0

\* zcode.Iter.Next on the bytes b that are left of a container body.  An
\* element is a header byte and its bytes: the header's low bit is the
\* is-container flag, the rest is the length plus one, and zero is an unset
\* element, which has no bytes.  An element longer than what is left is
\* the iterator's error.
IterNext(b) ==
    LET h == b[1]
        n == (h \div 2) - 1
    IN  IF h \div 2 = 0
        THEN [val |-> <<>>, container |-> h % 2 = 1, err |-> FALSE,
              rest |-> Tail(b)]
        ELSE IF n > Len(b) - 1
        THEN [val |-> <<>>, container |-> FALSE, err |-> TRUE, rest |-> <<>>]
        ELSE [val |-> SubSeq(b, 2, n + 1), container |-> h % 2 = 1,
              err |-> FALSE, rest |-> SubSeq(b, n + 2, Len(b))]

\* lookupSorter(typ) applied to two byte strings.  For a container type it
\* is ContainerCompare with the sorter of the inner type.
RECURSIVE lookupSorter(_, _, _)
RECURSIVE ContainerCompare(_, _, _)
ContainerCompare(innerType, a, b) ==
    IF Len(a) = 0 THEN (IF Len(b) = 0 THEN 0 ELSE -1)
    ELSE IF Len(b) = 0 THEN 1
    ELSE LET ea == IterNext(a) IN
         IF ea.container \/ ea.err THEN -1
         ELSE LET eb == IterNext(b) IN
              IF eb.container \/ eb.err THEN 1
              ELSE LET v == lookupSorter(innerType, ea.val, eb.val) IN
                   IF v # 0 THEN v
                   ELSE ContainerCompare(innerType, ea.rest, eb.rest)

lookupSorter(typ, a, b) ==
    IF InnerType(typ) # NoType
    THEN ContainerCompare(InnerType(typ), a, b)
    ELSE CASE TypeID(typ) \in {6, 7} -> IntCompare(a, b)
           [] TypeID(typ) = 16       -> BytesCompare(a, b)
           [] OTHER                  -> BytesCompare(a, b)

\* The result when exactly one of the two values is null.
NullCompareIgnoringFlag(nullsMax, nullA) == IF nullA THEN 1 ELSE -1
NullCompare(nullsMax, nullA) ==
    IF nullA THEN (IF nullsMax THEN 1 ELSE -1)
    ELSE (IF nullsMax THEN -1 ELSE 1)

\* The result for two non-null values of different type IDs.
TypeCompareByBytes(a, b) == BytesCompare(a.bytes, b.bytes)
TypeCompare(a, b) == BytesCompare(TypeString(a.type), TypeString(b.type))

\* The closure NewSortFn returns, from the k-th field on.  The sorters map
\* only caches lookupSorter's result per type, so it is not state here.
RECURSIVE SortFnFrom(_, _, _, _, _)
SortFnFrom(nullsMax, fields, ra, rb, k) ==
    IF k > Len(fields) THEN 0
    ELSE LET a == ra[fields[k]]
             b == rb[fields[k]]
             nullA == isNull(a)
             nullB == isNull(b)
         IN  IF nullA /\ nullB THEN SortFnFrom(nullsMax, fields, ra, rb, k + 1)
             ELSE IF nullA \/ nullB THEN NullCompare(nullsMax, nullA)
             ELSE IF TypeID(a.type) # TypeID(b.type) THEN TypeCompare(a, b)
             ELSE LET v == lookupSorter(a.type, a.bytes, b.bytes)
                  IN  IF v # 0 THEN v
                      ELSE SortFnFrom(nullsMax, fields, ra, rb, k + 1)

NewSortFn(nullsMax, fields, ra, rb) == SortFnFrom(nullsMax, fields, ra, rb, 1)

\* RecordSlice.Less on two pointers of the slice.
LessOrEqual(heap, nullsMax, fields, p, q) ==
    NewSortFn(nullsMax, fields, heap[p], heap[q]) <= 0
Less(heap, nullsMax, fields, p, q) ==
    NewSortFn(nullsMax, fields, heap[p], heap[q]) < 0

\* RecordSlice.Swap
Swap(s, i, j) == [s EXCEPT ![i] = s[j], ![j] = s[i]]

\* sort.Stable's insertion sort: the inner loop moves s[j] left while it is
\* Less than its left neighbour.
RECURSIVE InsertLeft(_, _, _, _, _)
InsertLeft(heap, nullsMax, fields, s, j) ==
    IF j > 1 /\ Less(heap, nullsMax, fields, s[j], s[j - 1])
    THEN InsertLeft(heap, nullsMax, fields, Swap(s, j, j - 1), j - 1)
    ELSE s

RECURSIVE InsertionSort(_, _, _, _, _)
InsertionSort(heap, nullsMax, fields, s, i) ==
    IF i > Len(s) THEN s
    ELSE InsertionSort(heap, nullsMax, fields,
                       InsertLeft(heap, nullsMax, fields, s, i), i + 1)

\* SortStable(records, sorter): sort.Stable sorts a slice no longer than one
\* block (20 elements) with one insertion sort; MaxLen stays below that.
SortStableOf(heap, nullsMax, fields, s) ==
    InsertionSort(heap, nullsMax, fields, s, 2)

(***************************************************************************)
(* pkg/zson/array.go                                                       *)
(***************************************************************************)
NilRecord == "nil"
NoSpan    == [ts |-> 0, dur |-> 0]
NoCall    == [op |-> "none", k |-> 0, len |-> 0, span |-> NoSpan,
              rec |-> NilRecord, panic |-> FALSE]

\* NewArray(r, s)
NewArray(r, s) == [span |-> s, records |-> r]

\* (*Array).Length
Length(a) == Len(a.records)

\* (*Array).Span
Span(a) == a.span

\* (*Array).Index: k is a Go int and the slice is 0-based; a.records[k] with
\* a negative k is a run-time panic (index out of range).
Index(a, k) ==
    IF k < Len(a.records)
    THEN IF k < 0 THEN [rec |-> NilRecord, panic |-> TRUE]
         ELSE [rec |-> a.records[k + 1], panic |-> FALSE]
    ELSE [rec |-> NilRecord, panic |-> FALSE]

(***************************************************************************)
(* zqd/search/search.go                                                    *)
(***************************************************************************)
NoErr == "nil"

\* One call on the Output: the event, the method it went through, and whether
\* the Output returned nil (ok) or an error.
Event(kind, via, cid, err, reason, ok) ==
    [kind |-> kind, via |-> via, cid |-> cid, err |-> err,
     reason |-> reason, ok |-> ok]

\* What the Output returns for a call.
OutputResult(ok) == IF ok THEN NoErr ELSE "output error"

\* searchdriver.start
start(id, ok) == Event("TaskStart", "SendControl", id, NoErr, "", ok)

\* searchdriver.end
end(id, ok) == Event("TaskEnd", "End", id, NoErr, "", ok)

\* searchdriver.abort
abortWithoutError(id, err, ok) == Event("TaskEnd", "SendControl", id, NoErr, "", ok)
abort(id, err, ok) == Event("TaskEnd", "SendControl", id, err, "", ok)

\* searchdriver.Warn
Warn(ok) == Event("SearchWarning", "SendControl", 0, NoErr, "", ok)

\* searchdriver.Write
Write(cid, ok) == Event("Batch", "SendBatch", cid, NoErr, "", ok)

\* searchdriver.Stats
Stats(ok) == Event("SearchStats", "SendControl", 0, NoErr, "", ok)

\* searchdriver.ChannelEnd: the calls it makes and the error it returns.
ChannelEndAlwaysSendsEnd(cid, statsOk, endOk) ==
    [sent |-> <<Stats(statsOk),
                Event("SearchEnd", "SendControl", cid, NoErr, "eof", endOk)>>,
     err  |-> OutputResult(statsOk /\ endOk)]
ChannelEnd(cid, statsOk, endOk) ==
    IF ~statsOk
    THEN [sent |-> <<Stats(statsOk)>>, err |-> OutputResult(statsOk)]
    ELSE [sent |-> <<Stats(statsOk),
                     Event("SearchEnd", "SendControl", cid, NoErr, "eof", endOk)>>,
          err  |-> OutputResult(endOk)]

MaxSpan == [ts |-> 0, dur |-> -1]      \* stands for nano.MaxSpan

\* launch: the proc graph driver.Compile is asked for.  The context given to
\* Compile is context.Background(), not launch's ctx parameter.
launch(ctx, req) ==
    [ctx     |-> "background",
     reverse |-> req.dir < 0,
     span    |-> IF req.ts = 0 /\ req.dur = 0 THEN MaxSpan
                 ELSE [ts |-> req.ts, dur |-> req.dur]]

\* Whether a context is done: the background context never is.
CtxDone(ctx, cancelled) == ctx = "request" /\ cancelled

\* NewSearch's checks of the request, in order; NoErr when it passes them.
ValidateRequestIgnoringDir(req) ==
    IF req.ts < 0 THEN "time span must have non-negative timestamp"
    ELSE IF req.dur < 0 THEN "time span must have non-negative duration"
    ELSE NoErr
ValidateRequest(req) ==
    IF req.ts < 0 THEN "time span must have non-negative timestamp"
    ELSE IF req.dur < 0 THEN "time span must have non-negative duration"
    ELSE IF req.dir # 1 /\ req.dir # -1 THEN "time direction must be 1 or -1"
    ELSE NoErr

(***************************************************************************)
(* zqd/ingest: Logs and ingestLogs                                         *)
(***************************************************************************)
ErrIngestProcessInFlight == "another ingest process is already in flight"

\* One message on a JSONPipe.  path is the path a LogPostWarning names; err
\* is the error a TaskEnd carries; final says it went through SendFinal; ok
\* says the send returned nil.
Msg(kind, path, err, final, ok) ==
    [kind |-> kind, path |-> path, err |-> err, final |-> final, ok |-> ok]

\* What scanner.OpenFile and configureJSONTypeReader do with a path:
\* "missing" fails to open, "cfgerr" opens as NDJSON but cannot be configured
\* with the request's JSONTypeConfig, "good" opens.
PathKind(path) ==
    CASE path = "missing.log" -> "missing"
      [] path = "bad.ndjson"  -> "cfgerr"
      [] OTHER                -> "good"

\* ingestLogs' loop body for one path: "fail" returns the error, "warn" sends
\* a LogPostWarning and goes on without the reader, "keep" keeps the reader.
OpenStepAlwaysWarns(stopErr, kind) ==
    IF kind = "missing" THEN "warn"
    ELSE IF kind = "cfgerr" THEN "fail"
    ELSE "keep"
OpenStep(stopErr, kind) ==
    IF kind = "missing" THEN (IF stopErr THEN "fail" ELSE "warn")
    ELSE IF kind = "cfgerr" THEN "fail"
    ELSE "keep"

\* The error ingestLogs returns from its loop for a path of that kind.
OpenError(kind) == IF kind = "missing" THEN "open error" ELSE "config error"

\* ---- inputs
SeqsUpTo(S, n) == UNION {[1..m -> S] : m \in 0..n}
Identity(n) == [i \in 1..n |-> i]

MaxLen == 3
MaxArrLen == 2

ArrRecordPtrs == {"r1", "r2", "r3"}
ArrSpans      == {[ts |-> 0, dur |-> 0], [ts |-> 5, dur |-> 10]}
ArrIndexes    == (0 - 1)..(MaxArrLen + 1)

NumChannels == 2
MaxPulls    == 2

SearchRequests ==
    [ts : {-1, 0}, dur : {-1, 0, 5}, dir : {-1, 0, 1}, procOK : BOOLEAN,
     nch : 1..NumChannels]
NoRequest == [ts |-> 0, dur |-> 0, dir |-> 1, procOK |-> TRUE, nch |-> 1]
LogCalls == {1, 2}
MaxPaths == 2
LogPaths == {"conn.log", "missing.log", "bad.ndjson"}
LogRequests == [paths : SeqsUpTo(LogPaths, MaxPaths), stopErr : BOOLEAN]
NoLogRequest == [paths |-> <<>>, stopErr |-> FALSE]
CallTag(p) == IF p = 1 THEN "call1" ELSE "call2"

NoTrace   == [unpacked |-> FALSE, opened |-> FALSE, closed |-> FALSE]
NoGraph   == [ctx |-> "none", reverse |-> FALSE, span |-> MaxSpan]

KeyLists   == {<<"a">>, <<"a", "b">>}

SortRecords ==
    {[a |-> x, b |-> y] : x \in {Absent, UnsetInt, BadInt, Int1, Int2, StrA},
                          y \in {Absent, Int1, Int2}}

CmpValues  == {Absent, UnsetInt, BadInt, Int1, Int2, IntM1, Int32x,
               StrA, StrB, StrAB, ArrUnset, Arr1, ArrOfArr}
CmpRecords == {[a |-> x, b |-> y] : x \in CmpValues, y \in CmpValues}


NoRecord == [a |-> Absent, b |-> Absent]

(***************************************************************************)
(* cmd/zq: Command.Run and Command.inputReaders                            *)
(***************************************************************************)
\* The arguments the runs are made of.  What each names in the file system,
\* whether its format is detected and whether it parses as ZQL are facts of
\* the environment, fixed for a run.
MaxArgs == 3
ZqArgPool ==
    {"-", "conn.log", "count", "junk.bin", "locked.log", "logs", "gone.log",
     "*", "a|"}
ZqOptions == [showVersion : BOOLEAN, stopErr : BOOLEAN, configOK : BOOLEAN]
NoOptions == [showVersion |-> FALSE, stopErr |-> TRUE, configOK |-> TRUE]

\* What os.Stat and os.Open find: "file" (a readable file), "locked" (a file
\* os.Open fails on), "dir", or "missing" (os.Stat fails).
FileKind(path) ==
    IF path \in {"conn.log", "count", "junk.bin"} THEN "file"
    ELSE IF path = "locked.log" THEN "locked"
    ELSE IF path = "logs" THEN "dir"
    ELSE "missing"

\* detector.NewReader / detector.LookupReader finds a reader for the data.
Detects(path) == path \in {"-", "conn.log", "count"}

\* zql.ParseProc accepts the text.
ParsesAsZQL(text) == text \in {"*", "count", "gone.log"}

\* fileExists: "-" or a path os.Stat finds and that is not a directory.
fileExistsIgnoringIsDir(path) ==
    IF path = "-" THEN TRUE
    ELSE FileKind(path) # "missing"
fileExists(path) ==
    IF path = "-" THEN TRUE
    ELSE IF FileKind(path) = "missing" THEN FALSE
    ELSE FileKind(path) # "dir"

\* inputReaders, one path: "keep" the reader, "skip" the path after
\* reporting its error, or the error inputReaders returns at once.
InputStep(stopErr, path) ==
    IF path # "-" /\ FileKind(path) = "missing" THEN "stat error"
    ELSE IF path # "-" /\ FileKind(path) = "dir" THEN "is a directory"
    ELSE IF path # "-" /\ FileKind(path) = "locked" THEN "open error"
    ELSE IF ~Detects(path)
         THEN IF stopErr THEN "format error" ELSE "skip"
    ELSE "keep"

ZqIdle ==
    /\ zqPc = "idle" /\ zqArgs = <<>> /\ zqOpts = NoOptions
    /\ zqShown = "none" /\ zqQuery = "none" /\ zqPaths = <<>> /\ zqIdx = 1
    /\ zqTouched = <<>> /\ zqReaders = <<>> /\ zqStderr = <<>>
    /\ zqRan = FALSE /\ zqErr = NoErr

(***************************************************************************)
(* streamfn/uint64.go: NewUint64 and its Update functions                  *)
(***************************************************************************)
\* A uint64 is kept as NumLimbs digits in base LimbBase, least significant
\* first, so that sums wrap at 2^64 exactly as the machine's do.
LimbBase == 65536
NumLimbs == 4
Limbs == 1..NumLimbs

U64(l1, l2, l3, l4) == <<l1, l2, l3, l4>>
Zero64      == U64(0, 0, 0, 0)
One64       == U64(1, 0, 0, 0)
Low16       == U64(65535, 0, 0, 0)           \* 2^16 - 1
Bit63       == U64(0, 0, 0, 32768)           \* 2^63
MaxUint64   == U64(65535, 65535, 65535, 65535)   \* math.MaxUint64

\* The carry out of limb k of a + b.
RECURSIVE Carry(_, _, _)
Carry(a, b, k) ==
    IF k = 0 THEN 0 ELSE (a[k] + b[k] + Carry(a, b, k - 1)) \div LimbBase

\* a + b on uint64: the carry out of the top limb is lost.
Add64(a, b) ==
    [k \in Limbs |-> (a[k] + b[k] + Carry(a, b, k - 1)) % LimbBase]

\* a < b on uint64.
Less64(a, b) ==
    \E k \in Limbs : a[k] < b[k] /\ \A j \in (k + 1)..NumLimbs : a[j] = b[j]

\* The three Update closures, as functions of p.State and v.
SumUpdateAssigns(state, v) == v
SumUpdate(state, v) == Add64(state, v)
MinUpdate(state, v) == IF Less64(v, state) THEN v ELSE state
MaxUpdate(state, v) == IF Less64(state, v) THEN v ELSE state

\* The State NewUint64 leaves in the new accumulator.
InitialStateZero(op) == Zero64
InitialState(op) == IF op = "Min" THEN MaxUint64 ELSE Zero64

\* NewUint64: a *Uint64, nil for an op it does not know.
NilUint64 == [isNil |-> TRUE, State |-> Zero64, op |-> "none"]
NewUint64(op) ==
    IF op \in {"Sum", "Min", "Max"}
    THEN [isNil |-> FALSE, State |-> InitialState(op), op |-> op]
    ELSE NilUint64

\* p.Update(v)
Update(p, v) ==
    [p EXCEPT !.State = IF p.op = "Sum" THEN SumUpdate(p.State, v)
                        ELSE IF p.op = "Min" THEN MinUpdate(p.State, v)
                        ELSE MaxUpdate(p.State, v)]

MaxVals   == 3
NumGroups == 2
FnValues  == {Zero64, One64, Low16, Bit63, MaxUint64}
FnOps     == {"Sum", "Min", "Max", "Avg"}

FnIdle ==
    /\ fnPc = "idle" /\ fnOp = "none" /\ fnVals = <<>> /\ fnDone = {}
    /\ fnAcc = NilUint64 /\ fnGroupAcc = [g \in 1..NumGroups |-> NilUint64]
    /\ fnGroupOf = <<>>

(***************************************************************************)
(* pcap/index.go: CreateIndex and IndexWriter                              *)
(***************************************************************************)
\* The legacy pcap layout: a file header, then packets of a packet header
\* and the captured bytes.
fileHeaderLen   == 24
packetHeaderLen == 16

\* A stream is cut into the units the reader consumes: the file header and
\* the packets.  A unit is well formed, malformed, or the place where the
\* underlying io.Reader fails.
Unit(kind, len, ts) == [kind |-> kind, len |-> len, ts |-> ts]
HdrOK   == Unit("hdr", fileHeaderLen, 0)
HdrBad  == Unit("bad", fileHeaderLen, 0)
PktA    == Unit("pkt", 60, 7)
PktB    == Unit("pkt", 0, 3)           \* no captured bytes, earlier time
PktBad  == Unit("bad", 4, 0)
IoErr   == Unit("ioerr", 0, 0)

\* The error a unit makes the reader return.
UnitError(u, where) ==
    IF u.kind = "ioerr" THEN "read error" ELSE "malformed " \o where

\* ranger.Point and ranger.NewEnvelope: the envelope keeps what it was
\* built from.
Point(x, y) == [X |-> x, Y |-> y]
NewEnvelope(offsets, limit) == [points |-> offsets, limit |-> limit]

NilIndex == [isNil |-> TRUE, Sections |-> <<>>]
Result(idx, err) == [idx |-> idx, err |-> err]
NoResult == Result(NilIndex, NoErr)

\* CreateIndex, after the loop: the index of the offsets, or the error for
\* no packet.
FinishIndexAllowingEmpty(offsets, limit) ==
    Result([isNil |-> FALSE,
            Sections |-> <<[Blocks |-> <<[Offset |-> 0, Length |-> fileHeaderLen]>>,
                            Index  |-> NewEnvelope(offsets, limit)]>>],
           NoErr)
FinishIndex(offsets, limit) ==
    IF Len(offsets) = 0 THEN Result(NilIndex, "no packets found")
    ELSE Result([isNil |-> FALSE,
                 Sections |-> <<[Blocks |-> <<[Offset |-> 0,
                                               Length |-> fileHeaderLen]>>,
                                 Index  |-> NewEnvelope(offsets, limit)]>>],
                NoErr)

\* CreateIndex's loop from unit k on, reader.Offset being off.
RECURSIVE ReadPackets(_, _, _, _, _)
ReadPackets(stream, limit, k, off, offsets) ==
    IF k > Len(stream) THEN FinishIndex(offsets, limit)
    ELSE IF stream[k].kind # "pkt"
    THEN Result(NilIndex, UnitError(stream[k], "packet"))
    ELSE ReadPackets(stream, limit, k + 1,
                     off + packetHeaderLen + stream[k].len,
                     Append(offsets, Point(off, stream[k].ts)))

\* CreateIndex(r, limit), r delivering the stream: NewReader, then the loop.
CreateIndex(stream, limit) ==
    IF Len(stream) = 0 THEN Result(NilIndex, "EOF")
    ELSE IF stream[1].kind # "hdr"
    THEN Result(NilIndex, UnitError(stream[1], "file header"))
    ELSE ReadPackets(stream, limit, 2, fileHeaderLen, <<>>)

MaxPackets  == 3
HeaderUnits == {HdrOK, HdrBad, IoErr}
PacketUnits == {PktA, PktB, PktBad, IoErr}
PcapStreams ==
    {<<>>} \cup {<<h>> \o p : h \in HeaderUnits,
                             p \in SeqsUpTo(PacketUnits, MaxPackets)}
PcapLimits == {0, 2}

\* What is not the writer's business before NewIndexWriter.
WriterIdle ==
    /\ iwPc = "none" /\ iwWritten = 0 /\ pipeData = <<>>
    /\ pipeWClosed = FALSE /\ pipeRErr = NoErr /\ runPc = "none"
    /\ runOff = 0 /\ runOffsets = <<>> /\ runRes = NoResult
    /\ iwIdx = NilIndex /\ iwErr = NoErr /\ closeRet = NoResult

PcapIdle ==
    /\ pcapPc = "idle" /\ pcapStream = <<>> /\ pcapLimit = 0
    /\ pcapRes = NoResult /\ WriterIdle

(***************************************************************************)
(* zqd/middleware.go: requestIDMiddleware and getRequestID                 *)
(***************************************************************************)
\* Header values and IDs are strings, kept as sequences of characters.
EmptyString == <<>>
Digits == <<"0", "1", "2", "3", "4", "5", "6", "7", "8", "9">>

\* strconv.FormatInt(n, 10) for n >= 0
RECURSIVE FormatInt(_)
FormatInt(n) ==
    IF n < 10 THEN <<Digits[n + 1]>>
    ELSE Append(FormatInt(n \div 10), Digits[(n % 10) + 1])

\* atomic.AddInt64(&count, delta): the new value
AddInt64Lost(cnt, delta) == cnt
AddInt64(cnt, delta) == cnt + delta

\* A context value: unset, or set to a string.
NoValue == [set |-> FALSE, v |-> EmptyString]
WithValue(v) == [set |-> TRUE, v |-> v]

\* getRequestID(ctx)
getRequestID(val) == IF val.set THEN val.v ELSE EmptyString

NumRequests == 3
Requests == 1..NumRequests
\* absent, a value that looks like a generated one, and another value
RequestHeaders == {EmptyString, <<"1">>, <<"a", "b">>}

MidIdle ==
    /\ midPc = [r \in Requests |-> "idle"]
    /\ reqHeader = [r \in Requests |-> EmptyString]
    /\ reqID = [r \in Requests |-> EmptyString]
    /\ respHeader = [r \in Requests |-> <<>>]
    /\ ctxValue = [r \in Requests |-> NoValue]
    /\ handlerSaw = [r \in Requests |-> EmptyString]
    /\ count = 0

(***************************************************************************)
(* zeekio: Parser.ParseDirective, parseFields, parseTypes, ParseValue      *)
(***************************************************************************)
ErrBadRecordDef == "bad types/fields definition in zeek header"

\* zng.Column; "" is the zero value of Name, "nil" the zero value of Type.
Column(name, typ) == [Name |-> name, Type |-> typ]
ZeroColumn == Column("", "nil")
MakeColumns(n) == [k \in 1..n |-> ZeroColumn]

\* zeekTypeToZng knows the type name.
KnownType(name) == name # "bogus"

\* The first type name zeekTypeToZng fails on, 0 when it fails on none.
FirstUnknown(types) ==
    IF \E k \in 1..Len(types) : ~KnownType(types[k])
    THEN CHOOSE k \in 1..Len(types) :
            ~KnownType(types[k]) /\ \A j \in 1..(k - 1) : KnownType(types[j])
    ELSE 0

\* parseFields: the columns, needfields and needtypes it leaves.
parseFields(cols, nf, nt, fields) ==
    LET base == IF Len(cols) # Len(fields) THEN MakeColumns(Len(fields))
                ELSE cols
    IN  [columns    |-> [k \in 1..Len(fields) |->
                            [base[k] EXCEPT !.Name = fields[k]]],
         needfields |-> FALSE,
         needtypes  |-> IF Len(cols) # Len(fields) THEN TRUE ELSE nt,
         clear      |-> TRUE,
         err        |-> NoErr]

\* parseTypes: the same, and whether it got to clear the descriptor; the
\* columns before an unknown type name keep the types already stored.
parseTypes(cols, nf, nt, types) ==
    LET base == IF Len(cols) # Len(types) THEN MakeColumns(Len(types))
                ELSE cols
        bad  == FirstUnknown(types)
        upto == IF bad = 0 THEN Len(types) ELSE bad - 1
    IN  [columns    |-> [k \in 1..Len(types) |->
                            IF k <= upto
                            THEN [base[k] EXCEPT !.Type = types[k]]
                            ELSE base[k]],
         needfields |-> IF Len(cols) # Len(types) THEN TRUE ELSE nf,
         needtypes  |-> IF bad = 0 THEN FALSE ELSE nt,
         clear      |-> bad = 0,
         err        |-> IF bad = 0 THEN NoErr ELSE "unknown type"]

\* setDescriptor: ErrBadRecordDef, or the descriptor of the columns (with
\* _path added when the log has a path and no _path column).
NilDescriptor == [isNil |-> TRUE, columns |-> <<>>, addpath |-> FALSE]
setDescriptor(cols, nf, nt, path) ==
    IF Len(cols) = 0 \/ nf \/ nt
    THEN [err |-> ErrBadRecordDef, descriptor |-> NilDescriptor]
    ELSE [err |-> NoErr,
          descriptor |-> [isNil |-> FALSE, columns |-> cols,
                          addpath |-> path # "" /\
                              \A k \in 1..Len(cols) : cols[k].Name # "_path"]]

MaxCols    == 2
FieldNames == {"ts", "_path"}
TypeNames  == {"time", "bogus"}
ZeekPaths  == {"-", "conn"}

ZpIdle ==
    /\ zpPc = "idle" /\ columns = <<>> /\ needfields = FALSE
    /\ needtypes = FALSE /\ zpPath = "" /\ descriptor = NilDescriptor
    /\ lastFields = 0 /\ lastTypes = 0 /\ directiveErr = NoErr
    /\ parseRet = "none"

(***************************************************************************)
(* detector: NewReader on a recorded input stream                          *)
(***************************************************************************)
\* The most bytes one probe reads from the stream.
MaxRead == 2

\* The formats in the order NewReader probes them.
Formats   == <<"zng", "zeek", "zjson", "ndjson", "bzng">>
FormatSet == {Formats[i] : i \in 1..Len(Formats)}

\* The formats whose reader has a constructor that returns an error.
WithConstructorError == {"zeek", "ndjson"}

\* An input stream, by what the readers make of it: the formats whose first
\* record it holds, the constructors that fail on a fresh context (probe)
\* and on the caller's context (final), and the format whose probe error
\* quotes a per cent sign.
DetInputs ==
    [matches : SUBSET FormatSet,
     probeCtorFails : SUBSET WithConstructorError,
     finalCtorFails : SUBSET WithConstructorError,
     pct : FormatSet \cup {"none"}]

NilError == <<>>
CtorErr  == <<"c">>

\* The text of the error the probe of format f returns on this input.
ProbeErr(in, f) ==
    LET tag == CASE f = "zng" -> "z" [] f = "zeek" -> "k" [] f = "zjson" -> "j"
                 [] f = "ndjson" -> "n" [] OTHER -> "b"
    IN  IF in.pct = f THEN <<tag, "%", "v">> ELSE <<tag>>

\* match(r): the error of reading the first record with format f's reader.
match(in, f) == IF f \in in.matches THEN NilError ELSE ProbeErr(in, f)

\* NewRecorder(r) and NewTrack(recorder): buf is how much of the input the
\* recorder holds, pos is where a read of the recorder itself starts, off
\* is where the track's next read starts.
NewStream == [buf |-> 0, pos |-> 0, off |-> 0]

\* A reader on the track reads k bytes: the recorder keeps what was read.
TrackRead(st, k) ==
    [st EXCEPT !.off = @ + k,
               !.buf = IF st.off + k > @ THEN st.off + k ELSE @]

\* track.Reset()
TrackReset(st) == [st EXCEPT !.off = 0]

NoReturn == [reader |-> "none", start |-> 0, err |-> NilError]

\* fmt.Errorf(s) with no arguments, from the k-th character on: "%%" is a
\* per cent sign, any other verb has no argument, a lone "%" has no verb.
RECURSIVE ErrorfFrom(_, _)
ErrorfFrom(s, k) ==
    IF k > Len(s) THEN <<>>
    ELSE IF s[k] # "%" THEN <<s[k]>> \o ErrorfFrom(s, k + 1)
    ELSE IF k = Len(s)
    THEN <<"%", "!", "(", "N", "O", "V", "E", "R", "B", ")">>
    ELSE IF s[k + 1] = "%" THEN <<"%">> \o ErrorfFrom(s, k + 2)
    ELSE <<"%", "!", s[k + 1], "(", "M", "I", "S", "S", "I", "N", "G", ")">>
             \o ErrorfFrom(s, k + 2)

Errorf(s) == ErrorfFrom(s, 1)

\* joinErrs: each error's text after a newline, the whole as a format.
RECURSIVE joinFrom(_, _)
joinFrom(errs, k) ==
    IF k > Len(errs) THEN <<>> ELSE <<"\n">> \o errs[k] \o joinFrom(errs, k + 1)

joinErrs(errs) == Errorf(joinFrom(errs, 1))

DetIdle ==
    /\ detPc = "idle"
    /\ detIn = [matches |-> {}, probeCtorFails |-> {}, finalCtorFails |-> {},
                pct |-> "none"]
    /\ detStream = NewStream
    /\ detErrs = [f \in FormatSet |-> NilError]
    /\ detRet = NoReturn

SortIdle ==
    /\ sortPc = "idle" /\ recs = <<>> /\ slice = <<>>
    /\ sortNullsMax = TRUE /\ sortFields = <<>>

CmpIdle ==
    /\ cmpPc = "idle" /\ cmpA = NoRecord /\ cmpB = NoRecord
    /\ cmpNullsMax = TRUE /\ cmpFields = <<>> /\ cmpRes = 0

ArrIdle ==
    /\ arrPc = "idle" /\ arrR = <<>> /\ arrS = NoSpan
    /\ arr = NewArray(<<>>, NoSpan) /\ arrCall = NoCall

SrchIdle ==
    /\ srchPc = "idle" /\ srchReq = NoRequest /\ srchErr = NoErr
    /\ srchTrace = NoTrace /\ reqCancelled = FALSE /\ graph = NoGraph
    /\ chEnded = {} /\ pulls = 0 /\ out = <<>> /\ drvErr = NoErr
    /\ runRet = NoErr

LogIdle ==
    /\ logPc = [p \in LogCalls |-> "idle"] /\ logReq = NoLogRequest
    /\ ingestDir = FALSE /\ dataFile = "none" /\ spaceTimes = "none"
    /\ pipe = [p \in LogCalls |-> <<>>] /\ pathIdx = [p \in LogCalls |-> 1]
    /\ readers = [p \in LogCalls |-> <<>>]
    /\ ingestErr = [p \in LogCalls |-> NoErr]
    /\ logRet = [p \in LogCalls |-> NoErr]

InitSort ==
    /\ sortPc = "ready"
    /\ recs \in SeqsUpTo(SortRecords, MaxLen)
    /\ slice = Identity(Len(recs))
    /\ sortNullsMax \in BOOLEAN
    /\ sortFields \in KeyLists
    /\ CmpIdle /\ ArrIdle /\ SrchIdle /\ LogIdle /\ ZqIdle /\ FnIdle
    /\ PcapIdle /\ MidIdle /\ ZpIdle /\ DetIdle

InitCompare ==
    /\ cmpPc = "ready"
    /\ cmpA \in CmpRecords
    /\ cmpB \in CmpRecords
    /\ cmpNullsMax \in BOOLEAN
    /\ cmpFields \in KeyLists
    /\ cmpRes = 0
    /\ SortIdle /\ ArrIdle /\ SrchIdle /\ LogIdle /\ ZqIdle /\ FnIdle
    /\ PcapIdle /\ MidIdle /\ ZpIdle /\ DetIdle

\* SortStable(records, NewSortFn(nullsMax, fields...))
SortStable ==
    /\ sortPc = "ready"
    /\ slice' = SortStableOf(recs, sortNullsMax, sortFields, slice)
    /\ sortPc' = "sorted"
    /\ UNCHANGED <<recs, sortNullsMax, sortFields>>
    /\ UNCHANGED notSortVars

\* sorter(ra, rb) for the sorter NewSortFn(nullsMax, fields...) returned
Compare ==
    /\ cmpPc = "ready"
    /\ cmpRes' = NewSortFn(cmpNullsMax, cmpFields, cmpA, cmpB)
    /\ cmpPc' = "done"
    /\ UNCHANGED <<cmpA, cmpB, cmpNullsMax, cmpFields>>
    /\ UNCHANGED notCmpVars

NextSort    == SortStable
NextCompare == Compare

SpecSort    == InitSort /\ [][NextSort]_vars
SpecCompare == InitCompare /\ [][NextCompare]_vars

\* ---- pkg/zson/array.go: an Array built by NewArray(r, s)
InitArray ==
    /\ arrPc = "built"
    /\ arrR \in SeqsUpTo(ArrRecordPtrs, MaxArrLen)
    /\ arrS \in ArrSpans
    /\ arr = NewArray(arrR, arrS)
    /\ arrCall = NoCall
    /\ SortIdle /\ CmpIdle /\ SrchIdle /\ LogIdle /\ ZqIdle /\ FnIdle
    /\ PcapIdle /\ MidIdle /\ ZpIdle /\ DetIdle

CallLength ==
    /\ arrPc = "built"
    /\ arrCall' = [NoCall EXCEPT !.op = "Length", !.len = Length(arr)]
    /\ UNCHANGED <<arrPc, arrR, arrS, arr>>
    /\ UNCHANGED notArrVars

CallSpan ==
    /\ arrPc = "built"
    /\ arrCall' = [NoCall EXCEPT !.op = "Span", !.span = Span(arr)]
    /\ UNCHANGED <<arrPc, arrR, arrS, arr>>
    /\ UNCHANGED notArrVars

CallIndex ==
    /\ arrPc = "built"
    /\ \E k \in ArrIndexes :
          arrCall' = [NoCall EXCEPT !.op = "Index", !.k = k,
                                    !.rec = Index(arr, k).rec,
                                    !.panic = Index(arr, k).panic]
    /\ UNCHANGED <<arrPc, arrR, arrS, arr>>
    /\ UNCHANGED notArrVars

NextArray == CallLength \/ CallSpan \/ CallIndex
SpecArray == InitArray /\ [][NextArray]_vars

\* ---- zqd/search: NewSearch(ctx, s, req), then Search.Run(output)
InitSearch ==
    /\ srchPc = "new"
    /\ srchReq \in SearchRequests
    /\ srchErr = NoErr /\ srchTrace = NoTrace /\ reqCancelled = FALSE
    /\ graph = NoGraph /\ chEnded = {} /\ pulls = 0 /\ out = <<>>
    /\ drvErr = NoErr /\ runRet = NoErr
    /\ SortIdle /\ CmpIdle /\ ArrIdle /\ LogIdle /\ ZqIdle /\ FnIdle
    /\ PcapIdle /\ MidIdle /\ ZpIdle /\ DetIdle

\* NewSearch: validate, UnpackQuery, s.OpenZng, launch; the reader is closed
\* again when launch fails.
NewSearch ==
    /\ srchPc = "new"
    /\ \E openOK \in BOOLEAN, compileOK \in BOOLEAN :
         LET verr == ValidateRequest(srchReq) IN
         IF verr # NoErr
         THEN /\ srchPc' = "rejected" /\ srchErr' = verr
              /\ UNCHANGED <<srchTrace, graph>>
         ELSE IF ~srchReq.procOK
         THEN /\ srchPc' = "rejected" /\ srchErr' = "unpack error"
              /\ srchTrace' = [srchTrace EXCEPT !.unpacked = TRUE]
              /\ UNCHANGED graph
         ELSE IF ~openOK
         THEN /\ srchPc' = "rejected" /\ srchErr' = "open error"
              /\ srchTrace' = [srchTrace EXCEPT !.unpacked = TRUE]
              /\ UNCHANGED graph
         ELSE IF ~compileOK
         THEN /\ srchPc' = "rejected" /\ srchErr' = "compile error"
              /\ srchTrace' = [unpacked |-> TRUE, opened |-> TRUE, closed |-> TRUE]
              /\ UNCHANGED graph
         ELSE /\ srchPc' = "ready" /\ srchErr' = NoErr
              /\ srchTrace' = [unpacked |-> TRUE, opened |-> TRUE, closed |-> FALSE]
              /\ graph' = launch("request", srchReq)
    /\ UNCHANGED <<srchReq, reqCancelled, chEnded, pulls, out, drvErr, runRet>>
    /\ UNCHANGED notSrchVars

\* The caller cancels the ctx it gave NewSearch.
Cancel ==
    /\ srchPc \in {"ready", "driving"}
    /\ ~reqCancelled
    /\ reqCancelled' = TRUE
    /\ UNCHANGED <<srchPc, srchReq, srchErr, srchTrace, graph, chEnded, pulls,
                   out, drvErr, runRet>>
    /\ UNCHANGED notSrchVars

\* Search.Run, first part: d.start(0), whose error is dropped.
RunStart ==
    /\ srchPc = "ready"
    /\ \E ok \in BOOLEAN : out' = Append(out, start(0, ok))
    /\ srchPc' = "driving"
    /\ UNCHANGED <<srchReq, srchErr, srchTrace, reqCancelled, graph, chEnded,
                   pulls, drvErr, runRet>>
    /\ UNCHANGED notSrchVars

\* driver.Run hands what it pulled to a handler of the searchdriver; a handler
\* error ends driver.Run with that error.
Deliver(ev) ==
    /\ out' = Append(out, ev)
    /\ IF ev.ok THEN UNCHANGED <<srchPc, drvErr>>
       ELSE srchPc' = "drvdone" /\ drvErr' = OutputResult(ev.ok)

\* driver.Run pulls a batch of an open channel (the guards common to the
\* pulls are in DriverRun).
DriverBatch ==
    /\ pulls < MaxPulls
    /\ \E c \in (1..srchReq.nch) \ chEnded, ok \in BOOLEAN : Deliver(Write(c, ok))
    /\ pulls' = pulls + 1
    /\ UNCHANGED <<srchReq, srchErr, srchTrace, reqCancelled, graph, chEnded, runRet>>
    /\ UNCHANGED notSrchVars

\* driver.Run pulls a warning.
DriverWarning ==
    /\ pulls < MaxPulls
    /\ \E ok \in BOOLEAN : Deliver(Warn(ok))
    /\ pulls' = pulls + 1
    /\ UNCHANGED <<srchReq, srchErr, srchTrace, reqCancelled, graph, chEnded, runRet>>
    /\ UNCHANGED notSrchVars

\* driver.Run's statistics timer fires (every StatsInterval).
DriverStats ==
    /\ pulls < MaxPulls
    /\ \E ok \in BOOLEAN : Deliver(Stats(ok))
    /\ pulls' = pulls + 1
    /\ UNCHANGED <<srchReq, srchErr, srchTrace, reqCancelled, graph, chEnded, runRet>>
    /\ UNCHANGED notSrchVars

\* driver.Run pulls the end of a channel; the multiplexer is at end of stream
\* once every channel has ended, and driver.Run then returns nil.
DriverChannelEnd ==
    /\ \E c \in (1..srchReq.nch) \ chEnded, statsOk \in BOOLEAN, endOk \in BOOLEAN :
         LET r == ChannelEnd(c, statsOk, endOk) IN
         /\ out' = out \o r.sent
         /\ chEnded' = chEnded \cup {c}
         /\ drvErr' = r.err
         /\ srchPc' = IF r.err # NoErr \/ chEnded' = 1..srchReq.nch
                      THEN "drvdone" ELSE "driving"
    /\ UNCHANGED <<srchReq, srchErr, srchTrace, reqCancelled, graph, pulls, runRet>>
    /\ UNCHANGED notSrchVars

\* A proc fails: driver.Run returns the error.
DriverProcError ==
    /\ srchPc' = "drvdone" /\ drvErr' = "proc error"
    /\ UNCHANGED <<srchReq, srchErr, srchTrace, reqCancelled, graph, chEnded,
                   pulls, out, runRet>>
    /\ UNCHANGED notSrchVars

\* The graph's context is done: driver.Run returns the cancellation.
DriverCancelled ==
    /\ srchPc' = "drvdone" /\ drvErr' = "context canceled"
    /\ UNCHANGED <<srchReq, srchErr, srchTrace, reqCancelled, graph, chEnded,
                   pulls, out, runRet>>
    /\ UNCHANGED notSrchVars

\* One turn of driver.Run's loop on s.mux: it returns once the context the
\* graph was compiled with is done, and otherwise handles what it pulls.
DriverRun ==
    /\ srchPc = "driving"
    /\ IF CtxDone(graph.ctx, reqCancelled)
       THEN DriverCancelled
       ELSE \/ DriverBatch \/ DriverWarning \/ DriverStats
            \/ DriverChannelEnd \/ DriverProcError

\* Search.Run, last part: d.abort(0, err) and return err, or return d.end(0).
RunFinish ==
    /\ srchPc = "drvdone"
    /\ \E ok \in BOOLEAN :
         IF drvErr # NoErr
         THEN out' = Append(out, abort(0, drvErr, ok)) /\ runRet' = drvErr
         ELSE out' = Append(out, end(0, ok)) /\ runRet' = OutputResult(ok)
    /\ srchPc' = "returned"
    /\ UNCHANGED <<srchReq, srchErr, srchTrace, reqCancelled, graph, chEnded,
                   pulls, drvErr>>
    /\ UNCHANGED notSrchVars

NextSearch ==
    \/ NewSearch \/ Cancel \/ RunStart
    \/ DriverRun
    \/ RunFinish

SpecSearch == InitSearch /\ [][NextSearch]_vars

\* ---- zqd/ingest: two Logs calls on one space, each with its own pipe, as
\* TestLogsErrInFlight makes them
InitLogs ==
    /\ logPc = [p \in LogCalls |-> "mkdir"]
    /\ logReq \in LogRequests
    /\ ingestDir = FALSE /\ dataFile = "none" /\ spaceTimes = "none"
    /\ pipe = [p \in LogCalls |-> <<>>]
    /\ pathIdx = [p \in LogCalls |-> 1]
    /\ readers = [p \in LogCalls |-> <<>>]
    /\ ingestErr = [p \in LogCalls |-> NoErr]
    /\ logRet = [p \in LogCalls |-> NoErr]
    /\ SortIdle /\ CmpIdle /\ ArrIdle /\ SrchIdle /\ ZqIdle /\ FnIdle
    /\ PcapIdle /\ MidIdle /\ ZpIdle /\ DetIdle

\* Logs: os.Mkdir(ingestDir).  An existing directory is another ingest in
\* flight; any other failure is returned as it is.
LogsMkdirAll(p) ==
    /\ logPc[p] = "mkdir"
    /\ \/ /\ ingestDir' = TRUE
          /\ logPc' = [logPc EXCEPT ![p] = "start"]
          /\ UNCHANGED logRet
       \/ /\ logRet' = [logRet EXCEPT ![p] = "mkdir error"]
          /\ logPc' = [logPc EXCEPT ![p] = "done"]
          /\ UNCHANGED ingestDir
    /\ UNCHANGED <<logReq, dataFile, spaceTimes, pipe, pathIdx, readers, ingestErr>>
    /\ UNCHANGED notLogVars
LogsMkdir(p) ==
    /\ logPc[p] = "mkdir"
    /\ IF ingestDir
       THEN /\ logRet' = [logRet EXCEPT ![p] = ErrIngestProcessInFlight]
            /\ logPc' = [logPc EXCEPT ![p] = "done"]
            /\ UNCHANGED ingestDir
       ELSE \/ /\ ingestDir' = TRUE
               /\ logPc' = [logPc EXCEPT ![p] = "start"]
               /\ UNCHANGED logRet
            \/ /\ logRet' = [logRet EXCEPT ![p] = "mkdir error"]
               /\ logPc' = [logPc EXCEPT ![p] = "done"]
               /\ UNCHANGED ingestDir
    /\ UNCHANGED <<logReq, dataFile, spaceTimes, pipe, pathIdx, readers, ingestErr>>
    /\ UNCHANGED notLogVars

\* Logs: pipe.Send(TaskStart); when it fails Logs goes straight to SendFinal.
LogsSendStart(p) ==
    /\ logPc[p] = "start"
    /\ \E ok \in BOOLEAN :
         /\ pipe' = [pipe EXCEPT ![p] = Append(@, Msg("TaskStart", "", NoErr, FALSE, ok))]
         /\ IF ok
            THEN logPc' = [logPc EXCEPT ![p] = "open"] /\ UNCHANGED ingestErr
            ELSE /\ logPc' = [logPc EXCEPT ![p] = "final"]
                 /\ ingestErr' = [ingestErr EXCEPT ![p] = OutputResult(ok)]
    /\ UNCHANGED <<logReq, ingestDir, dataFile, spaceTimes, pathIdx, readers, logRet>>
    /\ UNCHANGED notLogVars

\* ingestLogs: one turn of the loop over req.Paths.  The result of sending
\* the warning is dropped.
LogsOpenPath(p) ==
    /\ logPc[p] = "open"
    /\ pathIdx[p] <= Len(logReq.paths)
    /\ LET path == logReq.paths[pathIdx[p]]
           kind == PathKind(path)
           step == OpenStep(logReq.stopErr, kind)
       IN  CASE step = "fail" ->
                  /\ ingestErr' = [ingestErr EXCEPT ![p] = OpenError(kind)]
                  /\ logPc' = [logPc EXCEPT ![p] = "failed"]
                  /\ UNCHANGED <<pipe, pathIdx, readers>>
             [] step = "warn" ->
                  /\ pipe' = [pipe EXCEPT ![p] =
                                Append(@, Msg("LogPostWarning", path, NoErr, FALSE, TRUE))]
                  /\ pathIdx' = [pathIdx EXCEPT ![p] = @ + 1]
                  /\ UNCHANGED <<logPc, readers, ingestErr>>
             [] OTHER ->
                  /\ readers' = [readers EXCEPT ![p] = Append(@, path)]
                  /\ pathIdx' = [pathIdx EXCEPT ![p] = @ + 1]
                  /\ UNCHANGED <<logPc, pipe, ingestErr>>
    /\ UNCHANGED <<logReq, ingestDir, dataFile, spaceTimes, logRet>>
    /\ UNCHANGED notLogVars

\* ingestLogs after the loop: create the temporary file, compile, driver.Run,
\* close, SetTimes (when a record was read), rename over the data file, Info.
\* Each of them can fail; what was done before the failure stays done.
LogsIngestRun(p) ==
    /\ logPc[p] = "open"
    /\ pathIdx[p] > Len(logReq.paths)
    /\ LET hasRecords == readers[p] # <<>> IN
       \E outcome \in {"ok", "run error", "rename error", "info error"} :
         /\ spaceTimes' = IF outcome # "run error" /\ hasRecords
                          THEN CallTag(p) ELSE spaceTimes
         /\ dataFile' = IF outcome \in {"ok", "info error"}
                        THEN CallTag(p) ELSE dataFile
         /\ IF outcome = "ok"
            THEN logPc' = [logPc EXCEPT ![p] = "status"] /\ UNCHANGED ingestErr
            ELSE /\ logPc' = [logPc EXCEPT ![p] = "failed"]
                 /\ ingestErr' = [ingestErr EXCEPT ![p] = outcome]
    /\ UNCHANGED <<logReq, ingestDir, pipe, pathIdx, readers, logRet>>
    /\ UNCHANGED notLogVars

\* ingestLogs: return pipe.Send(status).
LogsSendStatus(p) ==
    /\ logPc[p] = "status"
    /\ \E ok \in BOOLEAN :
         /\ pipe' = [pipe EXCEPT ![p] = Append(@, Msg("LogPostStatus", "", NoErr, FALSE, ok))]
         /\ IF ok
            THEN logPc' = [logPc EXCEPT ![p] = "final"] /\ UNCHANGED ingestErr
            ELSE /\ logPc' = [logPc EXCEPT ![p] = "failed"]
                 /\ ingestErr' = [ingestErr EXCEPT ![p] = OutputResult(ok)]
    /\ UNCHANGED <<logReq, ingestDir, dataFile, spaceTimes, pathIdx, readers, logRet>>
    /\ UNCHANGED notLogVars

\* Logs, ingestLogs failed: os.Remove of the space's data file.
LogsIngestFailed(p) ==
    /\ logPc[p] = "failed"
    /\ dataFile' = "none"
    /\ logPc' = [logPc EXCEPT ![p] = "final"]
    /\ UNCHANGED <<logReq, ingestDir, spaceTimes, pipe, pathIdx, readers,
                   ingestErr, logRet>>
    /\ UNCHANGED notLogVars

\* Logs: return pipe.SendFinal(TaskEnd), with the error when there is one.
LogsSendFinalWithoutError(p) ==
    /\ logPc[p] = "final"
    /\ \E ok \in BOOLEAN :
         /\ pipe' = [pipe EXCEPT ![p] =
                       Append(@, Msg("TaskEnd", "", NoErr, TRUE, ok))]
         /\ logRet' = [logRet EXCEPT ![p] = OutputResult(ok)]
    /\ logPc' = [logPc EXCEPT ![p] = "cleanup"]
    /\ UNCHANGED <<logReq, ingestDir, dataFile, spaceTimes, pathIdx, readers, ingestErr>>
    /\ UNCHANGED notLogVars
LogsSendFinal(p) ==
    /\ logPc[p] = "final"
    /\ \E ok \in BOOLEAN :
         /\ pipe' = [pipe EXCEPT ![p] =
                       Append(@, Msg("TaskEnd", "", ingestErr[p], TRUE, ok))]
         /\ logRet' = [logRet EXCEPT ![p] = OutputResult(ok)]
    /\ logPc' = [logPc EXCEPT ![p] = "cleanup"]
    /\ UNCHANGED <<logReq, ingestDir, dataFile, spaceTimes, pathIdx, readers, ingestErr>>
    /\ UNCHANGED notLogVars

\* Logs: the deferred os.RemoveAll(ingestDir), and the return.
LogsCleanupKeepsDir(p) ==
    /\ logPc[p] = "cleanup"
    /\ logPc' = [logPc EXCEPT ![p] = "done"]
    /\ UNCHANGED <<logReq, ingestDir, dataFile, spaceTimes, pipe, pathIdx,
                   readers, ingestErr, logRet>>
    /\ UNCHANGED notLogVars
LogsCleanup(p) ==
    /\ logPc[p] = "cleanup"
    /\ ingestDir' = FALSE
    /\ logPc' = [logPc EXCEPT ![p] = "done"]
    /\ UNCHANGED <<logReq, dataFile, spaceTimes, pipe, pathIdx, readers,
                   ingestErr, logRet>>
    /\ UNCHANGED notLogVars

NextLogs ==
    \E p \in LogCalls :
        \/ LogsMkdir(p) \/ LogsSendStart(p) \/ LogsOpenPath(p)
        \/ LogsIngestRun(p) \/ LogsSendStatus(p) \/ LogsIngestFailed(p)
        \/ LogsSendFinal(p) \/ LogsCleanup(p)

SpecLogs == InitLogs /\ [][NextLogs]_vars

\* ---- cmd/zq: Command.Run(args)
InitZq ==
    /\ zqPc = "run"
    /\ zqArgs \in SeqsUpTo(ZqArgPool, MaxArgs)
    /\ zqOpts \in ZqOptions
    /\ zqShown = "none" /\ zqQuery = "none" /\ zqPaths = <<>> /\ zqIdx = 1
    /\ zqTouched = <<>> /\ zqReaders = <<>> /\ zqStderr = <<>>
    /\ zqRan = FALSE /\ zqErr = NoErr
    /\ SortIdle /\ CmpIdle /\ ArrIdle /\ SrchIdle /\ LogIdle /\ FnIdle
    /\ PcapIdle /\ MidIdle /\ ZpIdle /\ DetIdle

\* Run, up to the call of inputReaders: -version, no arguments, the JSON
\* path regexp and types file, then the choice between "first argument is a
\* file" and "first argument is the query".
ZqRun ==
    /\ zqPc = "run"
    /\ IF zqOpts.showVersion
       THEN /\ zqShown' = "version" /\ zqPc' = "done"
            /\ UNCHANGED <<zqQuery, zqPaths, zqErr>>
       ELSE IF Len(zqArgs) = 0
       THEN /\ zqShown' = "help" /\ zqPc' = "done"
            /\ UNCHANGED <<zqQuery, zqPaths, zqErr>>
       ELSE IF ~zqOpts.configOK
       THEN /\ zqErr' = "config error" /\ zqPc' = "done"
            /\ UNCHANGED <<zqShown, zqQuery, zqPaths>>
       ELSE IF fileExists(zqArgs[1])
       THEN /\ zqQuery' = "*" /\ zqPaths' = zqArgs /\ zqPc' = "inputs"
            /\ UNCHANGED <<zqShown, zqErr>>
       ELSE IF Len(Tail(zqArgs)) = 0
       THEN /\ zqErr' = "file not found" /\ zqPc' = "done"
            /\ UNCHANGED <<zqShown, zqQuery, zqPaths>>
       ELSE IF ~ParsesAsZQL(zqArgs[1])
       THEN /\ zqErr' = "parse error" /\ zqPc' = "done"
            /\ zqPaths' = Tail(zqArgs)
            /\ UNCHANGED <<zqShown, zqQuery>>
       ELSE /\ zqQuery' = zqArgs[1] /\ zqPaths' = Tail(zqArgs)
            /\ zqPc' = "inputs"
            /\ UNCHANGED <<zqShown, zqErr>>
    /\ UNCHANGED <<zqArgs, zqOpts, zqIdx, zqTouched, zqReaders, zqStderr, zqRan>>
    /\ UNCHANGED notZqVars

\* inputReaders: one turn of the loop over paths.
ZqInputReader ==
    /\ zqPc = "inputs"
    /\ zqIdx <= Len(zqPaths)
    /\ LET path == zqPaths[zqIdx]
           step == InputStep(zqOpts.stopErr, path)
       IN  /\ zqTouched' = Append(zqTouched, path)
           /\ IF step = "keep"
              THEN /\ zqReaders' = Append(zqReaders, path)
                   /\ zqIdx' = zqIdx + 1
                   /\ UNCHANGED <<zqPc, zqStderr, zqErr>>
              ELSE IF step = "skip"
              THEN /\ zqStderr' = Append(zqStderr, path)
                   /\ zqIdx' = zqIdx + 1
                   /\ UNCHANGED <<zqPc, zqReaders, zqErr>>
              ELSE /\ zqErr' = step /\ zqPc' = "done"
                   /\ zqReaders' = <<>>
                   /\ UNCHANGED <<zqIdx, zqStderr>>
    /\ UNCHANGED <<zqArgs, zqOpts, zqShown, zqQuery, zqPaths, zqRan>>
    /\ UNCHANGED notZqVars

\* Run, after inputReaders returned the readers: the combiner, the output,
\* the compilation of the query and driver.Run, each of which can fail.
ZqQuery ==
    /\ zqPc = "inputs"
    /\ zqIdx > Len(zqPaths)
    /\ \E res \in {NoErr, "output error", "compile error", "run error"} :
         /\ zqErr' = res
         /\ zqRan' = (res \in {NoErr, "run error"})
    /\ zqPc' = "done"
    /\ UNCHANGED <<zqArgs, zqOpts, zqShown, zqQuery, zqPaths, zqIdx, zqTouched,
                   zqReaders, zqStderr>>
    /\ UNCHANGED notZqVars

NextZq == ZqRun \/ ZqInputReader \/ ZqQuery
SpecZq == InitZq /\ [][NextZq]_vars

\* ---- streamfn: NewUint64(op), then Update for each value, in any order
InitFn ==
    /\ fnPc = "new"
    /\ fnOp \in FnOps
    /\ fnVals \in SeqsUpTo(FnValues, MaxVals)
    /\ fnDone = {}
    /\ fnAcc = NilUint64 /\ fnGroupAcc = [g \in 1..NumGroups |-> NilUint64]
    /\ fnGroupOf = [i \in 1..Len(fnVals) |-> 0]
    /\ SortIdle /\ CmpIdle /\ ArrIdle /\ SrchIdle /\ LogIdle /\ ZqIdle
    /\ PcapIdle /\ MidIdle /\ ZpIdle /\ DetIdle

\* NewUint64(op), once for the accumulator of all values and once for each
\* group's accumulator.
FnNewUint64 ==
    /\ fnPc = "new"
    /\ fnAcc' = NewUint64(fnOp)
    /\ fnGroupAcc' = [g \in 1..NumGroups |-> NewUint64(fnOp)]
    /\ fnPc' = IF NewUint64(fnOp).isNil THEN "noop" ELSE "folding"
    /\ UNCHANGED <<fnOp, fnVals, fnDone, fnGroupOf>>
    /\ UNCHANGED notFnVars

\* Update(v) with a value not folded yet, on the accumulator of all values
\* and on the accumulator of the group the value is put in.
FnUpdate ==
    /\ fnPc = "folding"
    /\ \E i \in (1..Len(fnVals)) \ fnDone, g \in 1..NumGroups :
         /\ fnAcc' = Update(fnAcc, fnVals[i])
         /\ fnGroupAcc' = [fnGroupAcc EXCEPT ![g] = Update(@, fnVals[i])]
         /\ fnDone' = fnDone \cup {i}
         /\ fnGroupOf' = [fnGroupOf EXCEPT ![i] = g]
    /\ UNCHANGED <<fnPc, fnOp, fnVals>>
    /\ UNCHANGED notFnVars

NextFn == FnNewUint64 \/ FnUpdate
SpecFn == InitFn /\ [][NextFn]_vars

\* ---- pcap: a stream is indexed by a direct call of CreateIndex or is
\* written to an IndexWriter
InitPcap ==
    /\ pcapPc = "ready"
    /\ pcapStream \in PcapStreams
    /\ pcapLimit \in PcapLimits
    /\ pcapRes = NoResult /\ WriterIdle
    /\ SortIdle /\ CmpIdle /\ ArrIdle /\ SrchIdle /\ LogIdle /\ ZqIdle
    /\ FnIdle /\ MidIdle /\ ZpIdle /\ DetIdle

writerState == <<iwPc, iwWritten, pipeData, pipeWClosed, pipeRErr, runPc,
                runOff, runOffsets, runRes, iwIdx, iwErr, closeRet>>

\* CreateIndex(r, limit) called on the stream.
CallCreateIndex ==
    /\ pcapPc = "ready"
    /\ pcapRes' = CreateIndex(pcapStream, pcapLimit)
    /\ pcapPc' = "called"
    /\ UNCHANGED <<pcapStream, pcapLimit, writerState>>
    /\ UNCHANGED notPcapVars

\* NewIndexWriter(limit): the pipe, wg.Add(1), go i.run(pr, limit).  What is
\* written to the writer comes from the caller, so no unit of the stream is
\* a failing read.
NewIndexWriter ==
    /\ pcapPc = "ready"
    /\ \A k \in 1..Len(pcapStream) : pcapStream[k].kind # "ioerr"
    /\ pcapPc' = "writer"
    /\ iwPc' = "open" /\ runPc' = "header"
    /\ UNCHANGED <<pcapStream, pcapLimit, pcapRes, iwWritten, pipeData,
                   pipeWClosed, pipeRErr, runOff, runOffsets, runRes, iwIdx,
                   iwErr, closeRet>>
    /\ UNCHANGED notPcapVars

\* Write of the next unit: on a pipe whose read side is closed it returns
\* the error at once, otherwise it blocks until the unit is read.
IwWrite ==
    /\ iwPc = "open"
    /\ iwWritten < Len(pcapStream)
    /\ iwWritten' = iwWritten + 1
    /\ IF pipeRErr # NoErr
       THEN UNCHANGED <<iwPc, pipeData>>
       ELSE iwPc' = "blocked" /\ pipeData' = <<pcapStream[iwWritten + 1]>>
    /\ UNCHANGED <<pcapPc, pcapStream, pcapLimit, pcapRes, pipeWClosed,
                   pipeRErr, runPc, runOff, runOffsets, runRes, iwIdx, iwErr,
                   closeRet>>
    /\ UNCHANGED notPcapVars

\* Close, first part: w.WriteCloser.Close(), then the caller is at wg.Wait().
IwClose ==
    /\ iwPc = "open"
    /\ pipeWClosed' = TRUE
    /\ iwPc' = "waiting"
    /\ UNCHANGED <<pcapPc, pcapStream, pcapLimit, pcapRes, iwWritten, pipeData,
                   pipeRErr, runPc, runOff, runOffsets, runRes, iwIdx, iwErr,
                   closeRet>>
    /\ UNCHANGED notPcapVars

\* Close, second part: wg.Wait() is over, return w.idx, w.err.
IwCloseReturnWithoutWait ==
    /\ iwPc = "waiting"
    /\ closeRet' = Result(iwIdx, iwErr)
    /\ iwPc' = "closed"
    /\ UNCHANGED <<pcapPc, pcapStream, pcapLimit, pcapRes, iwWritten, pipeData,
                   pipeWClosed, pipeRErr, runPc, runOff, runOffsets, runRes,
                   iwIdx, iwErr>>
    /\ UNCHANGED notPcapVars
IwCloseReturn ==
    /\ iwPc = "waiting"
    /\ runPc = "done"
    /\ closeRet' = Result(iwIdx, iwErr)
    /\ iwPc' = "closed"
    /\ UNCHANGED <<pcapPc, pcapStream, pcapLimit, pcapRes, iwWritten, pipeData,
                   pipeWClosed, pipeRErr, runPc, runOff, runOffsets, runRes,
                   iwIdx, iwErr>>
    /\ UNCHANGED notPcapVars

\* The goroutine's read of the pipe has something to return: a unit, or EOF.
PipeReadable == pipeData # <<>> \/ pipeWClosed

\* The unit read is taken from the pipe and the blocked Write returns.
PipeTake ==
    IF pipeData # <<>>
    THEN pipeData' = <<>> /\ iwPc' = "open"
    ELSE UNCHANGED <<pipeData, iwPc>>

\* run, in CreateIndex: NewReader reads the file header.
RunReadHeader ==
    /\ runPc = "header"
    /\ PipeReadable
    /\ PipeTake
    /\ IF pipeData = <<>>
       THEN /\ runRes' = Result(NilIndex, "EOF") /\ runPc' = "storeIdx"
            /\ UNCHANGED runOff
       ELSE IF pipeData[1].kind # "hdr"
       THEN /\ runRes' = Result(NilIndex, UnitError(pipeData[1], "file header"))
            /\ runPc' = "storeIdx"
            /\ UNCHANGED runOff
       ELSE /\ runOff' = fileHeaderLen /\ runPc' = "packets"
            /\ UNCHANGED runRes
    /\ UNCHANGED <<pcapPc, pcapStream, pcapLimit, pcapRes, iwWritten,
                   pipeWClosed, pipeRErr, runOffsets, iwIdx, iwErr, closeRet>>
    /\ UNCHANGED notPcapVars

\* run, in CreateIndex: one turn of the loop.
RunReadPacket ==
    /\ runPc = "packets"
    /\ PipeReadable
    /\ PipeTake
    /\ IF pipeData = <<>>
       THEN /\ runRes' = FinishIndex(runOffsets, pcapLimit)
            /\ runPc' = "storeIdx"
            /\ UNCHANGED <<runOff, runOffsets>>
       ELSE IF pipeData[1].kind # "pkt"
       THEN /\ runRes' = Result(NilIndex, UnitError(pipeData[1], "packet"))
            /\ runPc' = "storeIdx"
            /\ UNCHANGED <<runOff, runOffsets>>
       ELSE /\ runOffsets' = Append(runOffsets, Point(runOff, pipeData[1].ts))
            /\ runOff' = runOff + packetHeaderLen + pipeData[1].len
            /\ UNCHANGED <<runRes, runPc>>
    /\ UNCHANGED <<pcapPc, pcapStream, pcapLimit, pcapRes, iwWritten,
                   pipeWClosed, pipeRErr, iwIdx, iwErr, closeRet>>
    /\ UNCHANGED notPcapVars

\* run: w.idx, w.err = CreateIndex(r, limit), one field after the other.
RunStore ==
    /\ runPc \in {"storeIdx", "storeErr"}
    /\ IF runPc = "storeIdx"
       THEN iwIdx' = runRes.idx /\ runPc' = "storeErr" /\ UNCHANGED iwErr
       ELSE /\ iwErr' = runRes.err
            /\ runPc' = IF runRes.err # NoErr THEN "closeErr" ELSE "wgDone"
            /\ UNCHANGED iwIdx
    /\ UNCHANGED <<pcapPc, pcapStream, pcapLimit, pcapRes, iwPc, iwWritten,
                   pipeData, pipeWClosed, pipeRErr, runOff, runOffsets, runRes,
                   closeRet>>
    /\ UNCHANGED notPcapVars

\* run: r.CloseWithError(w.err); a Write blocked on the pipe returns.
RunCloseWithError ==
    /\ runPc = "closeErr"
    /\ pipeRErr' = iwErr
    /\ PipeTake
    /\ runPc' = "wgDone"
    /\ UNCHANGED <<pcapPc, pcapStream, pcapLimit, pcapRes, iwWritten,
                   pipeWClosed, runOff, runOffsets, runRes, iwIdx, iwErr,
                   closeRet>>
    /\ UNCHANGED notPcapVars

\* run: w.wg.Done()
RunWgDone ==
    /\ runPc = "wgDone"
    /\ runPc' = "done"
    /\ UNCHANGED <<pcapPc, pcapStream, pcapLimit, pcapRes, iwPc, iwWritten,
                   pipeData, pipeWClosed, pipeRErr, runOff, runOffsets, runRes,
                   iwIdx, iwErr, closeRet>>
    /\ UNCHANGED notPcapVars

NextPcap ==
    \/ CallCreateIndex \/ NewIndexWriter \/ IwWrite \/ IwClose
    \/ IwCloseReturn \/ RunReadHeader \/ RunReadPacket \/ RunStore
    \/ RunCloseWithError \/ RunWgDone
SpecPcap == InitPcap /\ [][NextPcap]_vars

\* ---- zqd: requests served concurrently through one requestIDMiddleware
InitMid ==
    /\ midPc = [r \in Requests |-> "get"]
    /\ reqHeader \in [Requests -> RequestHeaders]
    /\ reqID = [r \in Requests |-> EmptyString]
    /\ respHeader = [r \in Requests |-> <<>>]
    /\ ctxValue = [r \in Requests |-> NoValue]
    /\ handlerSaw = [r \in Requests |-> EmptyString]
    /\ count = 0
    /\ SortIdle /\ CmpIdle /\ ArrIdle /\ SrchIdle /\ LogIdle /\ ZqIdle
    /\ FnIdle /\ PcapIdle /\ ZpIdle /\ DetIdle

\* reqID := r.Header.Get(requestIDKey)
MidGetHeader(r) ==
    /\ midPc[r] = "get"
    /\ reqID' = [reqID EXCEPT ![r] = reqHeader[r]]
    /\ midPc' = [midPc EXCEPT ![r] =
                    IF reqHeader[r] = EmptyString THEN "generate" ELSE "add"]
    /\ UNCHANGED <<reqHeader, respHeader, ctxValue, handlerSaw, count>>
    /\ UNCHANGED notMidVars

\* reqID = strconv.FormatInt(atomic.AddInt64(&count, 1), 10)
MidGenerate(r) ==
    /\ midPc[r] = "generate"
    /\ count' = AddInt64(count, 1)
    /\ reqID' = [reqID EXCEPT ![r] = FormatInt(AddInt64(count, 1))]
    /\ midPc' = [midPc EXCEPT ![r] = "add"]
    /\ UNCHANGED <<reqHeader, respHeader, ctxValue, handlerSaw>>
    /\ UNCHANGED notMidVars

\* w.Header().Add(requestIDKey, reqID)
MidAddHeader(r) ==
    /\ midPc[r] = "add"
    /\ respHeader' = [respHeader EXCEPT ![r] = Append(@, reqID[r])]
    /\ midPc' = [midPc EXCEPT ![r] = "ctx"]
    /\ UNCHANGED <<reqHeader, reqID, ctxValue, handlerSaw, count>>
    /\ UNCHANGED notMidVars

\* ctx := context.WithValue(r.Context(), requestIDKey, reqID)
MidWithValue(r) ==
    /\ midPc[r] = "ctx"
    /\ ctxValue' = [ctxValue EXCEPT ![r] = WithValue(reqID[r])]
    /\ midPc' = [midPc EXCEPT ![r] = "serve"]
    /\ UNCHANGED <<reqHeader, reqID, respHeader, handlerSaw, count>>
    /\ UNCHANGED notMidVars

\* next.ServeHTTP(w, r.WithContext(ctx)): the next handler asks for the ID.
MidServe(r) ==
    /\ midPc[r] = "serve"
    /\ handlerSaw' = [handlerSaw EXCEPT ![r] = getRequestID(ctxValue[r])]
    /\ midPc' = [midPc EXCEPT ![r] = "served"]
    /\ UNCHANGED <<reqHeader, reqID, respHeader, ctxValue, count>>
    /\ UNCHANGED notMidVars

NextMid ==
    \E r \in Requests :
        \/ MidGetHeader(r) \/ MidGenerate(r) \/ MidAddHeader(r)
        \/ MidWithValue(r) \/ MidServe(r)
SpecMid == InitMid /\ [][NextMid]_vars

\* ---- zeekio: NewParser, then directives and value lines in any order
InitZp ==
    /\ zpPc = "parsing" /\ columns = <<>> /\ needfields = FALSE
    /\ needtypes = FALSE /\ zpPath = "" /\ descriptor = NilDescriptor
    /\ lastFields = 0 /\ lastTypes = 0 /\ directiveErr = NoErr
    /\ parseRet = "none"
    /\ SortIdle /\ CmpIdle /\ ArrIdle /\ SrchIdle /\ LogIdle /\ ZqIdle
    /\ FnIdle /\ PcapIdle /\ MidIdle /\ DetIdle

\* ParseDirective("#fields ..."): badfield when no column is listed, else
\* parseFields.
DirectiveFields ==
    /\ zpPc = "parsing"
    /\ \E fields \in SeqsUpTo(FieldNames, MaxCols) :
         IF Len(fields) = 0
         THEN /\ directiveErr' = "bad header field fields"
              /\ UNCHANGED <<columns, needfields, needtypes, descriptor,
                             lastFields>>
         ELSE LET r == parseFields(columns, needfields, needtypes, fields)
              IN  /\ columns' = r.columns
                  /\ needfields' = r.needfields
                  /\ needtypes' = r.needtypes
                  /\ descriptor' = NilDescriptor
                  /\ directiveErr' = r.err
                  /\ lastFields' = Len(fields)
    /\ parseRet' = "none"
    /\ UNCHANGED <<zpPc, zpPath, lastTypes>>
    /\ UNCHANGED notZpVars

\* ParseDirective("#types ..."): badfield when no column is listed, else
\* parseTypes.
DirectiveTypes ==
    /\ zpPc = "parsing"
    /\ \E types \in SeqsUpTo(TypeNames, MaxCols) :
         IF Len(types) = 0
         THEN /\ directiveErr' = "bad header field types"
              /\ UNCHANGED <<columns, needfields, needtypes, descriptor,
                             lastTypes>>
         ELSE LET r == parseTypes(columns, needfields, needtypes, types)
              IN  /\ columns' = r.columns
                  /\ needfields' = r.needfields
                  /\ needtypes' = r.needtypes
                  /\ descriptor' = IF r.clear THEN NilDescriptor
                                   ELSE descriptor
                  /\ directiveErr' = r.err
                  /\ lastTypes' = Len(types)
    /\ parseRet' = "none"
    /\ UNCHANGED <<zpPc, zpPath, lastFields>>
    /\ UNCHANGED notZpVars

\* ParseDirective("#path ..."): "-" stands for no path.
DirectivePath ==
    /\ zpPc = "parsing"
    /\ \E path \in ZeekPaths : zpPath' = IF path = "-" THEN "" ELSE path
    /\ directiveErr' = NoErr
    /\ parseRet' = "none"
    /\ UNCHANGED <<zpPc, columns, needfields, needtypes, descriptor,
                   lastFields, lastTypes>>
    /\ UNCHANGED notZpVars

\* ParseValue(line): setDescriptor when there is no descriptor, then the
\* line is parsed against the descriptor, which can fail on the line.
ParseValue ==
    /\ zpPc = "parsing"
    /\ parseRet = "none"
    /\ LET sd == IF descriptor.isNil
                 THEN setDescriptor(columns, needfields, needtypes, zpPath)
                 ELSE [err |-> NoErr, descriptor |-> descriptor]
       IN  /\ descriptor' = sd.descriptor
           /\ IF sd.err # NoErr
              THEN parseRet' = sd.err
              ELSE \E lineOK \in BOOLEAN :
                      parseRet' = IF lineOK THEN "record" ELSE "line error"
    /\ UNCHANGED <<zpPc, columns, needfields, needtypes, zpPath, lastFields,
                   lastTypes, directiveErr>>
    /\ UNCHANGED notZpVars

NextZp == DirectiveFields \/ DirectiveTypes \/ DirectivePath \/ ParseValue
SpecZp == InitZp /\ [][NextZp]_vars

\* ---- detector: NewReader(r, zctx)
InitDet ==
    /\ detPc = "zng"
    /\ detIn \in DetInputs
    /\ detStream = NewStream
    /\ detErrs = [f \in FormatSet |-> NilError]
    /\ detRet = NoReturn
    /\ SortIdle /\ CmpIdle /\ ArrIdle /\ SrchIdle /\ LogIdle /\ ZqIdle
    /\ FnIdle /\ PcapIdle /\ MidIdle /\ ZpIdle

\* NewReader, one format: the reader on the track (its constructor's error
\* is returned at once), match, and then either the reader on the recorder
\* (again with its constructor's error) or track.Reset() and the next
\* format; after the last format the joined errors are returned.
Probe(f, next) ==
    /\ IF f \in detIn.probeCtorFails
       THEN /\ detRet' = [NoReturn EXCEPT !.err = CtorErr]
            /\ detPc' = "done"
            /\ UNCHANGED <<detStream, detErrs>>
       ELSE \E k \in 1..MaxRead :
              LET st   == TrackRead(detStream, k)
                  err  == match(detIn, f)
                  errs == [detErrs EXCEPT ![f] = err]
              IN  /\ detErrs' = errs
                  /\ IF err = NilError
                     THEN /\ detRet' = IF f \in detIn.finalCtorFails
                                       THEN [NoReturn EXCEPT !.err = CtorErr]
                                       ELSE [reader |-> f, start |-> st.pos,
                                             err |-> NilError]
                          /\ detStream' = st
                          /\ detPc' = "done"
                     ELSE IF next # "join"
                     THEN /\ detStream' = TrackReset(st)
                          /\ detPc' = next
                          /\ UNCHANGED detRet
                     ELSE /\ detRet' = [NoReturn EXCEPT !.err =
                                joinErrs(<<errs["zng"], errs["zeek"],
                                           errs["ndjson"], errs["zjson"],
                                           errs["bzng"]>>)]
                          /\ detStream' = st
                          /\ detPc' = "done"
    /\ UNCHANGED detIn
    /\ UNCHANGED notDetVars

ProbeZng ==
    /\ detPc = "zng"
    /\ Probe("zng", "zeek")

ProbeZeek ==
    /\ detPc = "zeek"
    /\ Probe("zeek", "zjson")

ProbeZjson ==
    /\ detPc = "zjson"
    /\ Probe("zjson", "ndjson")

ProbeNdjson ==
    /\ detPc = "ndjson"
    /\ Probe("ndjson", "bzng")

ProbeBzng ==
    /\ detPc = "bzng"
    /\ Probe("bzng", "join")

NextDet == ProbeZng \/ ProbeZeek \/ ProbeZjson \/ ProbeNdjson \/ ProbeBzng
SpecDet == InitDet /\ [][NextDet]_vars

\* Every component, each from its own initial states.
Init == InitSort \/ InitCompare \/ InitArray \/ InitSearch \/ InitLogs
     \/ InitZq \/ InitFn \/ InitPcap \/ InitMid \/ InitZp \/ InitDet
Next == NextSort \/ NextCompare \/ NextArray \/ NextSearch \/ NextLogs
     \/ NextZq \/ NextFn \/ NextPcap \/ NextMid \/ NextZp \/ NextDet
Spec == Init /\ [][Next]_vars

(***************************************************************************)
(* Properties of expr/sort.go                                              *)
(***************************************************************************)
PosOf(s, p) == CHOOSE k \in 1..Len(s) : s[k] = p

SortedKey(k) == recs[slice[k]][sortFields[1]]

\* C1: SortStable leaves the slice a permutation of the input pointers, and
\* two records that compare equal (sorter = 0) keep their input order.
C1_SortStablePreservesEqualOrder ==
    sortPc = "sorted" =>
        /\ Len(slice) = Len(recs)
        /\ {slice[k] : k \in 1..Len(slice)} = 1..Len(recs)
        /\ \A i \in 1..Len(recs) : \A j \in 1..Len(recs) :
              (i < j /\ NewSortFn(sortNullsMax, sortFields, recs[i], recs[j]) = 0)
                  => PosOf(slice, i) < PosOf(slice, j)

\* A sort that moved records and had a pair of equal records to keep in order.
C1_Witness ==
    /\ sortPc = "sorted"
    /\ slice # Identity(Len(recs))
    /\ \E i \in 1..Len(recs) : \E j \in 1..Len(recs) :
          /\ i < j
          /\ recs[i] # recs[j]
          /\ NewSortFn(sortNullsMax, sortFields, recs[i], recs[j]) = 0

\* C2: after a sort on one key, nullsMax = TRUE puts every null-key record
\* after every non-null-key record, and nullsMax = FALSE puts it before.
C2_NullsAtTheEnd ==
    (sortPc = "sorted" /\ Len(sortFields) = 1) =>
        \A p \in 1..Len(slice) : \A q \in 1..Len(slice) :
            p < q =>
                /\ sortNullsMax => ~(isNull(SortedKey(p)) /\ ~isNull(SortedKey(q)))
                /\ ~sortNullsMax => ~(~isNull(SortedKey(p)) /\ isNull(SortedKey(q)))

\* A one-key sort, nulls last, whose input had a null key ahead of a non-null one.
C2_Witness ==
    /\ sortPc = "sorted"
    /\ Len(sortFields) = 1
    /\ sortNullsMax
    /\ Len(recs) = MaxLen
    /\ isNull(recs[1][sortFields[1]])
    /\ ~isNull(recs[2][sortFields[1]])
    /\ recs[1][sortFields[1]].type # NoType
    /\ recs[3][sortFields[1]].type = NoType

\* The comparison of ra and rb on the field ties: both null, or the same type
\* and equal under that type's comparefn.
KeyTies(field) ==
    LET a == cmpA[field]
        b == cmpB[field]
    IN  \/ isNull(a) /\ isNull(b)
        \/ /\ ~isNull(a) /\ ~isNull(b)
           /\ TypeID(a.type) = TypeID(b.type)
           /\ lookupSorter(a.type, a.bytes, b.bytes) = 0

\* The order of the type names as byte strings:
\* array[array[int64]] < array[int64] < int32 < int64 < string.
TypeNameRank(typ) ==
    CASE typ = "int32" -> 1 [] typ = "int64" -> 2 [] typ = "string" -> 3
      [] typ = "array[int64]" -> -1 [] typ = "array[array[int64]]" -> -2
      [] OTHER -> 0

\* C3: when the comparator reaches a sort key whose two values are non-null
\* and of different type IDs, its result is the byte-wise comparison of the
\* two type names, whatever the values' bytes and the later keys are.
C3_DifferentTypesCompareByTypeName ==
    cmpPc = "done" =>
        \A k \in 1..Len(cmpFields) :
            LET a == cmpA[cmpFields[k]]
                b == cmpB[cmpFields[k]]
            IN  ( /\ \A m \in 1..(k - 1) : KeyTies(cmpFields[m])
                  /\ ~isNull(a) /\ ~isNull(b)
                  /\ TypeID(a.type) # TypeID(b.type) )
                => /\ cmpRes = BytesCompare(TypeString(a.type), TypeString(b.type))
                   /\ cmpRes = Sign(TypeNameRank(a.type) - TypeNameRank(b.type))

\* string against int64 on the first key, where the values' bytes and the
\* second key both order the records the other way.
C3_Witness ==
    /\ cmpPc = "done"
    /\ cmpFields = <<"a", "b">>
    /\ cmpA.a = StrA /\ cmpB.a = Int2
    /\ cmpA.b = Int1 /\ cmpB.b = Int2
    /\ cmpRes = 1


(***************************************************************************)
(* Properties of zqd/ingest                                                *)
(***************************************************************************)
\* No send on a pipe failed, no directory could not be made, no ingest failed.
NothingFailed ==
    \A p \in LogCalls :
        /\ \A i \in 1..Len(pipe[p]) : pipe[p][i].ok
        /\ logRet[p] # "mkdir error"
        /\ ingestErr[p] = NoErr

\* C4: of two concurrent Logs calls on one space exactly one returns nil and
\* the other returns ErrIngestProcessInFlight, however they interleave
\* (stated for the runs in which nothing else fails).
C4_ExactlyOneLogsCallSucceeds ==
    ((\A p \in LogCalls : logPc[p] = "done") /\ NothingFailed) =>
        \E p \in LogCalls :
            /\ logRet[p] = NoErr
            /\ \A q \in LogCalls \ {p} : logRet[q] = ErrIngestProcessInFlight

IsMissing(path) == PathKind(path) = "missing"
IsGood(path)    == PathKind(path) = "good"
IsWarning(m)    == m.kind = "LogPostWarning"

\* The paths the LogPostWarnings of a call name, in the order sent.
WarnedPaths(p) ==
    LET w == SelectSeq(pipe[p], IsWarning) IN [i \in 1..Len(w) |-> w[i].path]

\* The paths ingestLogs' loop has dealt with.
PathsDone(p) == SubSeq(logReq.paths, 1, pathIdx[p] - 1)

\* ingestLogs was called: the TaskStart went out.
Ingesting(p) == Len(pipe[p]) >= 1 /\ pipe[p][1].ok

\* C10: with stop-on-error, the first path that fails to open fails the
\* ingest (no later path is opened, no warning and no status is sent, TaskEnd
\* carries the error) and no data file is installed in the space; without
\* it, each path that fails to open gives one LogPostWarning naming it, its
\* reader is dropped, and the loop goes on to the remaining paths.
C10_StopOnErrorOrWarnAndDrop ==
    \A p \in LogCalls :
        /\ logReq.stopErr =>
             /\ \A i \in 1..(pathIdx[p] - 1) : ~IsMissing(logReq.paths[i])
             /\ WarnedPaths(p) = <<>>
             /\ ( /\ Ingesting(p) /\ logPc[p] # "open"
                  /\ pathIdx[p] <= Len(logReq.paths)
                  /\ IsMissing(logReq.paths[pathIdx[p]]) )
                => /\ ingestErr[p] = "open error"
                   /\ \A i \in 1..Len(pipe[p]) :
                        /\ pipe[p][i].kind # "LogPostStatus"
                        /\ pipe[p][i].kind = "TaskEnd" => pipe[p][i].err # NoErr
             /\ (\E i \in 1..Len(logReq.paths) : IsMissing(logReq.paths[i]))
                => dataFile = "none"
        /\ ~logReq.stopErr =>
             /\ WarnedPaths(p) = SelectSeq(PathsDone(p), IsMissing)
             /\ readers[p] = SelectSeq(PathsDone(p), IsGood)
             /\ ingestErr[p] # "open error"
             /\ ( /\ Ingesting(p) /\ logPc[p] # "open"
                  /\ \A i \in 1..Len(logReq.paths) :
                       PathKind(logReq.paths[i]) # "cfgerr" )
                => pathIdx[p] = Len(logReq.paths) + 1

\* Without stop-on-error: a call given a missing path and then a good one
\* sent the warning, kept the good reader and installed the data file.
C10_Witness ==
    /\ ~logReq.stopErr
    /\ logReq.paths = <<"missing.log", "conn.log">>
    /\ logPc[1] = "done"
    /\ WarnedPaths(1) = <<"missing.log">>
    /\ readers[1] = <<"conn.log">>
    /\ dataFile = CallTag(1)

(***************************************************************************)
(* Properties of pkg/zson/array.go                                         *)
(***************************************************************************)
\* C9: on an Array built by NewArray(r, s), Length() is len(r), Span() is s,
\* Index(k) is r[k] for 0 <= k < Length(), and Index(k) is nil, without a
\* failure, for every k outside that range.
C9_ArrayContract ==
    arrPc = "built" =>
        /\ arrCall.op = "Length" => arrCall.len = Len(arrR)
        /\ arrCall.op = "Span" => arrCall.span = arrS
        /\ arrCall.op = "Index" =>
              IF 0 <= arrCall.k /\ arrCall.k < Len(arrR)
              THEN ~arrCall.panic /\ arrCall.rec = arrR[arrCall.k + 1]
              ELSE ~arrCall.panic /\ arrCall.rec = NilRecord

(***************************************************************************)
(* Properties of zqd/search/search.go                                      *)
(***************************************************************************)
OutKinds(k) == {i \in 1..Len(out) : out[i].kind = k}

\* C5: once the ctx given to NewSearch is cancelled, a Run in progress stops
\* driving the multiplexer: its next step is driver.Run returning, with no
\* further event handed to the output and no further channel ended.
C5_CancelStopsRun ==
    [][(reqCancelled /\ srchPc = "driving")
          => (srchPc' = "drvdone" /\ out' = out /\ chEnded' = chEnded)]_vars

\* C6: in a Run, TaskStart is the first event handed to the output, before
\* every batch, warning, stats and search-end event; exactly one TaskEnd is
\* handed over, as the last event; and that TaskEnd carries an error exactly
\* when driver.Run returned one.
C6_TaskStartFirstTaskEndLast ==
    /\ srchPc \in {"new", "rejected", "ready"} => out = <<>>
    /\ srchPc \in {"driving", "drvdone", "returned"} => OutKinds("TaskStart") = {1}
    /\ OutKinds("TaskEnd") \subseteq {Len(out)}
    /\ (srchPc = "returned") <=> (OutKinds("TaskEnd") # {})
    /\ srchPc = "returned" =>
          ((out[Len(out)].err # NoErr) <=> (drvErr # NoErr))

\* A Run that delivered a batch and a search end before a proc failed.
C6_Witness ==
    /\ srchPc = "returned"
    /\ drvErr = "proc error"
    /\ OutKinds("Batch") # {}
    /\ OutKinds("SearchEnd") # {}

\* C7: every Run calls the output's End exactly once, as its last call, when
\* the driver finished normally and when it failed.
C7_EndCalledOnceAsLastCall ==
    srchPc = "returned" =>
        /\ Cardinality({i \in 1..Len(out) : out[i].via = "End"}) = 1
        /\ out[Len(out)].via = "End"

\* C8: a step that ends channel c hands the output a SearchStats and then,
\* right after it, a SearchEnd for c with reason "eof"; when the stats call
\* fails, no SearchEnd follows and driver.Run ends with the error.  No other
\* step hands over a SearchEnd.
C8_ChannelEndSendsStatsThenEnd ==
    [][LET n    == Len(out)
           ends == chEnded' \ chEnded
       IN  /\ ends = {} =>
                 \A i \in (n + 1)..Len(out') : out'[i].kind # "SearchEnd"
           /\ \A c \in ends :
                 /\ Len(out') > n
                 /\ SubSeq(out', 1, n) = out
                 /\ out'[n + 1].kind = "SearchStats"
                 /\ IF out'[n + 1].ok
                    THEN /\ Len(out') = n + 2
                         /\ out'[n + 2].kind = "SearchEnd"
                         /\ out'[n + 2].cid = c
                         /\ out'[n + 2].reason = "eof"
                         /\ drvErr' = OutputResult(out'[n + 2].ok)
                    ELSE /\ Len(out') = n + 1
                         /\ drvErr' # NoErr
                         /\ srchPc' = "drvdone"
      ]_vars

\* Two channels ended: one whose stats were delivered, with its SearchEnd,
\* and one whose stats call failed, without.
C8_Witness ==
    /\ Cardinality(chEnded) = NumChannels
    /\ Cardinality(OutKinds("SearchEnd")) = NumChannels - 1
    /\ \E i \in OutKinds("SearchStats") : ~out[i].ok /\ i = Len(out)

\* C17: a request with a negative span timestamp, a negative span duration or
\* a direction that is neither 1 nor -1 is rejected by NewSearch: it returns
\* one of its three validation errors and no Search (no graph is compiled),
\* and neither the query has been unpacked nor a reader on the space opened.
InvalidRequest(req) == req.ts < 0 \/ req.dur < 0 \/ (req.dir # 1 /\ req.dir # -1)

ValidationErrors ==
    {"time span must have non-negative timestamp",
     "time span must have non-negative duration",
     "time direction must be 1 or -1"}

C17_InvalidRequestRejectedBeforeUnpack ==
    (srchPc \notin {"idle", "new"} /\ InvalidRequest(srchReq)) =>
        /\ srchPc = "rejected"
        /\ srchErr \in ValidationErrors
        /\ graph = NoGraph
        /\ ~srchTrace.unpacked /\ ~srchTrace.opened

C17_Witness ==
    /\ srchPc = "rejected"
    /\ srchReq.ts = 0 /\ srchReq.dur = 5 /\ srchReq.dir = 0
    /\ srchErr = "time direction must be 1 or -1"
    /\ srchTrace = NoTrace

(***************************************************************************)
(* Properties of zqd/ingest: the ingest directory as a lock                *)
(***************************************************************************)
\* The calls that have created the ingest directory and not yet removed it.
HoldsIngestDir(p) ==
    logPc[p] \in {"start", "open", "status", "failed", "final", "cleanup"}

\* A step in which call p finds the directory existing and returns.
FindsDirExisting(p) ==
    logPc[p] = "mkdir" /\ ingestDir /\ logPc'[p] = "done"

\* C16: at most one Logs call of a space is between creating and removing
\* the ingest directory; a call that finds the directory existing returns
\* ErrIngestProcessInFlight, has sent nothing on its pipe, and leaves the
\* directory, the data file and the time span of the space as they were.
C16_OneIngestInFlight ==
    /\ [](Cardinality({p \in LogCalls : HoldsIngestDir(p)}) <= 1)
    /\ [](\A p \in LogCalls :
            logRet[p] = ErrIngestProcessInFlight => pipe[p] = <<>>)
    /\ [][\A p \in LogCalls :
            FindsDirExisting(p) =>
                /\ logRet'[p] = ErrIngestProcessInFlight
                /\ pipe'[p] = <<>>
                /\ ingestDir' = ingestDir
                /\ dataFile' = dataFile
                /\ spaceTimes' = spaceTimes]_vars

\* One call is ingesting (it has installed the data file) and the other has
\* been turned away.
C16_Witness ==
    \E p, q \in LogCalls :
        /\ HoldsIngestDir(p) /\ dataFile # "none"
        /\ logPc[q] = "done" /\ logRet[q] = ErrIngestProcessInFlight
        /\ pipe[q] = <<>> /\ ingestDir

(***************************************************************************)
(* Properties of cmd/zq                                                    *)
(***************************************************************************)
\* The inputs the claims call failing: a missing file, a file that cannot
\* be opened, a file whose format is not detected.
InputFails(path) ==
    \/ path # "-" /\ FileKind(path) \in {"missing", "locked"}
    \/ ~Detects(path)
InputOK(path) == ~InputFails(path)
IsDirectory(path) == path # "-" /\ FileKind(path) = "dir"

IsPrefix(s, t) == Len(s) <= Len(t) /\ s = SubSeq(t, 1, Len(s))

\* The first failing input of the paths, 0 when there is none.
FirstFailing(paths) ==
    IF \E k \in 1..Len(paths) : InputFails(paths[k])
    THEN CHOOSE k \in 1..Len(paths) :
            InputFails(paths[k]) /\ \A j \in 1..(k - 1) : InputOK(paths[j])
    ELSE 0

\* C11: without stop-on-error a failing input (missing, not openable, format
\* not detected) does not fail the command: each failing input is reported
\* and dropped and the query is run over the others; with stop-on-error the
\* first failing input fails the command and the query is not run.
C11_FailingInputDroppedUnlessStopErr ==
    (/\ zqPc = "done" /\ zqQuery # "none"
     /\ \A k \in 1..Len(zqPaths) : ~IsDirectory(zqPaths[k])) =>
        IF ~zqOpts.stopErr
        THEN /\ zqErr \in {NoErr, "output error", "compile error", "run error"}
             /\ zqStderr = SelectSeq(zqPaths, InputFails)
             /\ zqReaders = SelectSeq(zqPaths, InputOK)
        ELSE FirstFailing(zqPaths) # 0 =>
                /\ zqErr \notin {NoErr, "output error", "compile error",
                                 "run error"}
                /\ ~zqRan
                /\ zqTouched = SubSeq(zqPaths, 1, FirstFailing(zqPaths))

\* C15, for a run without -version whose JSON options load.  The first
\* argument names a file (or is "-"): the query is "*" and all arguments are
\* the inputs.  Otherwise: "file not found" when it is the only argument,
\* "parse error" when it is not ZQL, else it is the query and the other
\* arguments are the inputs.  No argument: the help, and nothing is read.
\* inputReaders looks at the inputs in order, and at all of them when no
\* input fails the command.
NamesFile(arg) == arg = "-" \/ FileKind(arg) \in {"file", "locked"}

ZqArgsHandled ==
    zqPc \notin {"idle", "run"} /\ ~zqOpts.showVersion /\ zqOpts.configOK

ReadsInputs(paths) ==
    /\ zqPaths = paths /\ zqShown = "none"
    /\ IsPrefix(zqTouched, paths)
    /\ (zqPc = "done" /\ (zqRan \/ zqErr = NoErr)) => zqTouched = paths

ReadsNothing == zqPc = "done" /\ zqTouched = <<>> /\ ~zqRan /\ zqQuery = "none"

C15_FirstArgumentFileOrQuery ==
    ZqArgsHandled =>
        IF Len(zqArgs) = 0
        THEN zqShown = "help" /\ ReadsNothing
        ELSE IF NamesFile(zqArgs[1])
        THEN zqQuery = "*" /\ ReadsInputs(zqArgs)
        ELSE IF Len(zqArgs) = 1
        THEN zqErr = "file not found" /\ ReadsNothing
        ELSE IF ~ParsesAsZQL(zqArgs[1])
        THEN zqErr = "parse error" /\ ReadsNothing
        ELSE zqQuery = zqArgs[1] /\ ReadsInputs(Tail(zqArgs))

\* A first argument that is both a file and valid ZQL: the file wins.
C15_Witness ==
    /\ ZqArgsHandled /\ zqPc = "done" /\ zqRan
    /\ Len(zqArgs) = 2 /\ zqArgs[1] = "count" /\ ParsesAsZQL(zqArgs[1])
    /\ zqQuery = "*" /\ zqReaders = zqArgs

(***************************************************************************)
(* Properties of streamfn/uint64.go                                        *)
(***************************************************************************)
\* The states of the first g group accumulators, added modulo 2^64.
RECURSIVE AddGroups(_)
AddGroups(g) ==
    IF g = 0 THEN Zero64 ELSE Add64(AddGroups(g - 1), fnGroupAcc[g].State)

\* C12: with Sum accumulators, the group results added modulo 2^64 are the
\* state of the one accumulator that was given every value, whatever the
\* values, their order and the groups they were put in (also before the
\* fold is complete, for the values folded so far).
C12_GroupedSumEqualsSingleSum ==
    (fnPc = "folding" /\ fnOp = "Sum") => AddGroups(NumGroups) = fnAcc.State

\* All values folded, into two non-empty groups, and the sum has wrapped
\* around: 2^63 went to one group and 2^63 to the other.
C12_Witness ==
    /\ fnPc = "folding" /\ fnOp = "Sum"
    /\ Len(fnVals) >= 2 /\ fnDone = 1..Len(fnVals)
    /\ \E i, j \in fnDone :
          /\ fnVals[i] = Bit63 /\ fnVals[j] = Bit63
          /\ fnGroupOf[i] = 1 /\ fnGroupOf[j] = 2
    /\ fnGroupAcc[1].State = Bit63
    /\ AddGroups(NumGroups) = fnAcc.State

\* The sum of limb k over the values at the positions S (an integer).
RECURSIVE ColSum(_, _)
ColSum(S, k) ==
    IF S = {} THEN 0
    ELSE LET i == CHOOSE x \in S : TRUE IN fnVals[i][k] + ColSum(S \ {i}, k)

\* The carry out of limb k when the column sums are written in base 2^16.
RECURSIVE NormCarry(_, _)
NormCarry(S, k) ==
    IF k = 0 THEN 0 ELSE (ColSum(S, k) + NormCarry(S, k - 1)) \div LimbBase

\* (sum of the values at S) mod 2^64
SumMod64(S) ==
    [k \in Limbs |-> (ColSum(S, k) + NormCarry(S, k - 1)) % LimbBase]

Leq64(a, b) == a = b \/ Less64(a, b)
ValuesAt(S) == {fnVals[i] : i \in S}
MinOf(S) ==
    IF S = {} THEN MaxUint64
    ELSE CHOOSE v \in ValuesAt(S) : \A w \in ValuesAt(S) : Leq64(v, w)
MaxOf(S) ==
    IF S = {} THEN Zero64
    ELSE CHOOSE v \in ValuesAt(S) : \A w \in ValuesAt(S) : Leq64(w, v)

\* C19: after Update was called with the values at any set of positions, in
\* any order, the State is their sum modulo 2^64 for "Sum", their minimum
\* (2^64 - 1 for no value) for "Min", their maximum (0 for no value) for
\* "Max"; for any other op name NewUint64 returned nil.
C19_StateIsSumMinMax ==
    /\ fnPc = "noop" => fnAcc.isNil /\ fnOp \notin {"Sum", "Min", "Max"}
    /\ fnPc = "folding" =>
         /\ ~fnAcc.isNil
         /\ fnOp = "Sum" => fnAcc.State = SumMod64(fnDone)
         /\ fnOp = "Min" => fnAcc.State = MinOf(fnDone)
         /\ fnOp = "Max" => fnAcc.State = MaxOf(fnDone)
         /\ fnOp \in {"Sum", "Min", "Max"}

\* A Min fold of three different values given largest first.
C19_Witness ==
    /\ fnPc = "folding" /\ fnOp = "Min"
    /\ fnVals = <<One64, Bit63, Low16>> /\ fnDone = 1..3
    /\ fnAcc.State = One64

(***************************************************************************)
(* Properties of pcap/index.go                                             *)
(***************************************************************************)
\* A legacy pcap stream: a good file header, then good packets only.
IsLegacyPcap(s) ==
    /\ Len(s) >= 1 /\ s[1].kind = "hdr"
    /\ \A k \in 2..Len(s) : s[k].kind = "pkt"

\* The first unit of a stream that is not what the reader expects there.
FirstBadUnit(s) ==
    CHOOSE k \in 1..Len(s) :
        /\ s[k].kind # (IF k = 1 THEN "hdr" ELSE "pkt")
        /\ \A j \in 1..(k - 1) : s[j].kind = (IF j = 1 THEN "hdr" ELSE "pkt")

\* The error of the read that fails on a stream that is not a legacy pcap.
ReadErrorOf(s) ==
    IF Len(s) = 0 THEN "EOF"
    ELSE UnitError(s[FirstBadUnit(s)],
                   IF FirstBadUnit(s) = 1 THEN "file header" ELSE "packet")

\* C13: CreateIndex on a legacy pcap stream of n >= 1 packets returns, with
\* no error, an index of one section whose only block is the file header
\* slice (0, fileHeaderLen) and whose envelope is built from n points, the
\* i-th carrying the i-th packet's timestamp, at strictly increasing
\* offsets; on a stream of no packet it returns "no packets found" and no
\* index; when a read fails it returns the read's error and no index.
C13_CreateIndexResult ==
    pcapPc = "called" =>
        LET s == pcapStream
            n == Len(pcapStream) - 1
            r == pcapRes
        IN  IF IsLegacyPcap(s) /\ n >= 1
            THEN /\ r.err = NoErr /\ ~r.idx.isNil
                 /\ Len(r.idx.Sections) = 1
                 /\ r.idx.Sections[1].Blocks =
                        <<[Offset |-> 0, Length |-> fileHeaderLen]>>
                 /\ r.idx.Sections[1].Index.limit = pcapLimit
                 /\ LET pts == r.idx.Sections[1].Index.points
                    IN  /\ Len(pts) = n
                        /\ \A i \in 1..n : pts[i].Y = s[i + 1].ts
                        /\ \A i \in 1..(n - 1) : pts[i].X < pts[i + 1].X
            ELSE IF IsLegacyPcap(s)
            THEN r = Result(NilIndex, "no packets found")
            ELSE r = Result(NilIndex, ReadErrorOf(s))

\* Three packets, the second without captured bytes and with an earlier
\* timestamp than the first.
C13_Witness ==
    /\ pcapPc = "called"
    /\ pcapStream = <<HdrOK, PktA, PktB, PktA>>
    /\ pcapRes.err = NoErr
    /\ Len(pcapRes.idx.Sections[1].Index.points) = 3

\* C18: when Close has returned, the goroutine has finished, and what Close
\* returned is what CreateIndex gives for the units written before Close:
\* an index and no error, or an error and no index.
C18_CloseReturnsCreateIndexResult ==
    iwPc = "closed" =>
        /\ runPc = "done"
        /\ closeRet = Result(iwIdx, iwErr)
        /\ closeRet = CreateIndex(SubSeq(pcapStream, 1, iwWritten), pcapLimit)
        /\ \/ ~closeRet.idx.isNil /\ closeRet.err = NoErr
           \/ closeRet.idx.isNil /\ closeRet.err # NoErr

\* Close returned the index of a header and two packets.
C18_Witness ==
    /\ iwPc = "closed" /\ iwWritten = 3
    /\ closeRet.err = NoErr /\ ~closeRet.idx.isNil
    /\ Len(closeRet.idx.Sections[1].Index.points) = 2

(***************************************************************************)
(* Properties of zqd/middleware.go                                         *)
(***************************************************************************)
\* The request has been given its ID (the local reqID is final).
HasID(r) == midPc[r] \in {"add", "ctx", "serve", "served"}

\* C14: a request that reached the next handler has one ID, which is the
\* value of requestIDKey in its context (what getRequestID returns) and the
\* X-Request-ID value added to its response; the ID is the request's own
\* X-Request-ID header when that is not empty, else a generated, non-empty
\* value; and the generated IDs of any two requests differ.
C14_RequestIDInContextAndHeader ==
    /\ \A r \in Requests :
          midPc[r] = "served" =>
             /\ ctxValue[r] = WithValue(reqID[r])
             /\ handlerSaw[r] = reqID[r]
             /\ respHeader[r] = <<reqID[r]>>
             /\ reqID[r] # EmptyString
    /\ \A r \in Requests :
          HasID(r) =>
             IF reqHeader[r] # EmptyString
             THEN reqID[r] = reqHeader[r]
             ELSE \E n \in 1..NumRequests : reqID[r] = FormatInt(n)
    /\ \A r1, r2 \in Requests :
          (/\ r1 # r2 /\ HasID(r1) /\ HasID(r2)
           /\ reqHeader[r1] = EmptyString /\ reqHeader[r2] = EmptyString)
             => reqID[r1] # reqID[r2]

\* Two requests without the header and one with it, all served.
C14_Witness ==
    /\ \A r \in Requests : midPc[r] = "served"
    /\ \E r1, r2, r3 \in Requests :
          /\ r1 # r2
          /\ reqHeader[r1] = EmptyString /\ reqHeader[r2] = EmptyString
          /\ reqHeader[r3] = <<"a", "b">>
          /\ handlerSaw[r1] = <<"2">> /\ handlerSaw[r2] = <<"1">>
          /\ handlerSaw[r3] = <<"a", "b">>

(***************************************************************************)
(* Properties of zeekio                                                    *)
(***************************************************************************)
\* Both a #fields and a #types directive have been seen, and the most
\* recent of each list the same number (not zero) of columns.
HeaderComplete ==
    lastFields >= 1 /\ lastTypes >= 1 /\ lastFields = lastTypes

\* C20: whatever directives came before, ParseValue parses a value line
\* (it gets as far as the line) only when the header is complete; in every
\* other state of the parser it returns ErrBadRecordDef.
C20_ParseValueNeedsFieldsAndTypes ==
    parseRet # "none" => (HeaderComplete \/ parseRet = ErrBadRecordDef)

(***************************************************************************)
(* Properties of zqd/ingest: the deferred removal of the ingest directory  *)
(***************************************************************************)
\* Call p created the ingest directory and has returned: every call that
\* gets past os.Mkdir sends TaskStart, so its pipe is not empty.
ReturnedAfterMkdir(p) == logPc[p] = "done" /\ pipe[p] # <<>>

\* C23: a Logs call that created the ingest directory has removed it when
\* it returns, whether TaskStart could not be sent, the ingest failed, the
\* final send failed or nothing failed: the directory exists only while a
\* call that has not returned holds it, and a call is turned away with
\* ErrIngestProcessInFlight only while another call still holds it.
C23_IngestDirRemovedBeforeReturn ==
    /\ [](ingestDir => \E p \in LogCalls : HoldsIngestDir(p))
    /\ [](\A p \in LogCalls :
            (ReturnedAfterMkdir(p) /\ ingestDir) =>
                \E q \in LogCalls \ {p} : HoldsIngestDir(q))
    /\ [][\A q \in LogCalls :
            FindsDirExisting(q) =>
                \E p \in LogCalls \ {q} : HoldsIngestDir(p)]_vars

\* One call has returned after failing to send TaskStart and failing the
\* final send, and the other call, started afterwards, has been let in.
C23_Witness ==
    \E p, q \in LogCalls :
        /\ ReturnedAfterMkdir(p)
        /\ ~pipe[p][1].ok /\ logRet[p] = "output error"
        /\ logPc[q] = "open" /\ ingestDir

(***************************************************************************)
(* Properties of zqd/ingest: the messages of one Logs call                 *)
(***************************************************************************)
\* The positions on call p's pipe of the messages of one kind.
MsgsOfKind(p, kind) == {i \in 1..Len(pipe[p]) : pipe[p][i].kind = kind}

\* The positions of the LogPostStatus messages whose Send returned nil.
StatusSent(p) == {i \in MsgsOfKind(p, "LogPostStatus") : pipe[p][i].ok}

\* Call p is past pipe.SendFinal.
PastSendFinal(p) == logPc[p] \in {"cleanup", "done"} /\ pipe[p] # <<>>

\* A step in which call p puts a LogPostStatus on its pipe.
SendsStatus(p) ==
    /\ Len(pipe'[p]) = Len(pipe[p]) + 1
    /\ pipe'[p][Len(pipe'[p])].kind = "LogPostStatus"

\* C24: a Logs call that created the ingest directory sends TaskStart
\* first and nowhere else; it sends one TaskEnd, through SendFinal, as its
\* last message and none before; the TaskEnd carries an error exactly when
\* TaskStart could not be sent or ingestLogs failed, which is exactly when
\* no LogPostStatus was sent; and LogPostStatus is put on the pipe at most
\* once, with this call's data file installed and before any TaskEnd.
C24_TaskStartFirstTaskEndLast ==
    /\ [](\A p \in LogCalls :
            /\ (HoldsIngestDir(p) /\ logPc[p] # "start") => pipe[p] # <<>>
            /\ MsgsOfKind(p, "TaskStart") = (IF pipe[p] = <<>> THEN {} ELSE {1})
            /\ \A i \in 1..Len(pipe[p]) :
                  pipe[p][i].final <=> pipe[p][i].kind = "TaskEnd"
            /\ MsgsOfKind(p, "TaskEnd") =
                  (IF PastSendFinal(p) THEN {Len(pipe[p])} ELSE {})
            /\ Cardinality(MsgsOfKind(p, "LogPostStatus")) <= 1
            /\ StatusSent(p) # {} => pipe[p][1].ok
            /\ PastSendFinal(p) =>
                  LET last == pipe[p][Len(pipe[p])] IN
                  /\ last.err # NoErr <=>
                        (~pipe[p][1].ok \/ ingestErr[p] # NoErr)
                  /\ last.err = NoErr <=> StatusSent(p) # {})
    /\ [][\A p \in LogCalls :
            SendsStatus(p) =>
                /\ dataFile = CallTag(p)
                /\ ingestErr[p] = NoErr
                /\ MsgsOfKind(p, "TaskEnd") = {}]_vars

\* One call has returned after a warning, a LogPostStatus and a TaskEnd
\* without an error; the other after a TaskEnd with the ingest's error.
C24_Witness ==
    \E p, q \in LogCalls :
        /\ logPc[p] = "done" /\ logPc[q] = "done"
        /\ Len(pipe[p]) = 4 /\ pipe[p][1].kind = "TaskStart"
        /\ pipe[p][2].kind = "LogPostWarning"
        /\ pipe[p][3].kind = "LogPostStatus" /\ pipe[p][3].ok
        /\ pipe[p][4].kind = "TaskEnd" /\ pipe[p][4].err = NoErr
        /\ Len(pipe[q]) >= 2 /\ pipe[q][1].ok
        /\ pipe[q][Len(pipe[q])].err = "rename error"

(***************************************************************************)
(* Properties of expr/sort.go: the comparator as an order                  *)
(***************************************************************************)
\* The sorter of the call, applied to the two records the other way round.
Swapped == NewSortFn(cmpNullsMax, cmpFields, cmpB, cmpA)

\* C22: the sorter NewSortFn returns is antisymmetric: for every pair of
\* records the sign of sorter(a, b) is minus the sign of sorter(b, a), also
\* when a key value fails to decode in one or both records and when the
\* key is a container of containers.
C22_SorterAntisymmetric ==
    cmpPc = "done" => Sign(cmpRes) = -Sign(Swapped)

(***************************************************************************)
(* Properties of detector.NewReader                                        *)
(***************************************************************************)
\* The first format, in probe order, whose first record the input holds.
FirstMatch ==
    IF detIn.matches = {} THEN "none"
    ELSE Formats[CHOOSE i \in 1..Len(Formats) :
                    /\ Formats[i] \in detIn.matches
                    /\ \A j \in 1..(i - 1) : Formats[j] \notin detIn.matches]

\* The text sub occurs in the text s.
Contains(s, sub) ==
    \E i \in 0..(Len(s) - Len(sub)) : SubSeq(s, i + 1, i + Len(sub)) = sub

\* C21: NewReader returns the reader of the first format, in the order
\* zng, zeek, zjson, ndjson, bzng, whose probe succeeds, and that reader
\* starts at the first byte of the input whatever the probes read; it
\* returns an error only when all five probes fail, and the text of that
\* error holds the text of each of the five probe errors.
C21_FirstMatchingFormatOrJoinedErrors ==
    detPc = "done" =>
        /\ FirstMatch # "none" =>
              /\ detRet.err = NilError
              /\ detRet.reader = FirstMatch
              /\ detRet.start = 0
        /\ FirstMatch = "none" =>
              /\ detRet.reader = "none"
              /\ \A f \in FormatSet : Contains(detRet.err, ProbeErr(detIn, f))

====
